---- MODULE Spec2Model ----
(***************************************************************************)
(* Excel <-> API translation engine of the VIP DataMakelaar application:   *)
(* the batched upload with retries (APIClient.update_objects), the         *)
(* paginated download (APIClient.get_all_objects and its callers) and the  *)
(* import flow (validation, row translation, upload).                      *)
(***************************************************************************)
EXTENDS Integers, Sequences, FiniteSets, TLC

(***************************************************************************)
(* Bounds of the model.                                                    *)
(***************************************************************************)
MaxObjects == 3
MaxBatchSize == 2
MaxRetries == 3

None == "None"

Min(a, b) == IF a < b THEN a ELSE b

\* ceil(a / b) for b >= 1
CeilDiv(a, b) == (a + b - 1) \div b

RECURSIVE Concat(_)
\* concatenation of a sequence of sequences
Concat(ss) == IF ss = <<>> THEN <<>> ELSE Head(ss) \o Concat(Tail(ss))

RECURSIVE SelectEvents(_, _)
\* the events of a trace that are of kind op, in trace order
SelectEvents(tr, op) ==
    IF tr = <<>> THEN <<>>
    ELSE IF Head(tr).op = op THEN <<Head(tr)>> \o SelectEvents(Tail(tr), op)
         ELSE SelectEvents(Tail(tr), op)

(***************************************************************************)
(* State of one call of APIClient.update_objects and of its caller         *)
(* upload_to_vip.                                                          *)
(***************************************************************************)
VARIABLES
    objects_data,        \* the argument: the list of objects to update
    batch_size,          \* the argument batch_size
    max_retries,         \* the argument max_retries
    i,                   \* loop variable of the batch loop (0-based offset)
    retry,               \* loop variable of the retry loop (0-based)
    response_json_list,  \* the results accumulated so far
    upd_pc,              \* "idle", "called", "put", "returned", "raised", "done"
    upd_error,           \* the exception that left update_objects, or None
    upd_result,          \* the dictionary update_objects returned
    trace,               \* every PUT attempt and every sleep, in order
    report               \* what upload_to_vip showed: the report or the error

updVars == <<objects_data, batch_size, max_retries, i, retry,
             response_json_list, upd_pc, upd_error, upd_result, trace, report>>


\* the values of a result's "success" entry: true, false, or no entry (a
\* list response flags each object, a single object may come without a flag)
ListFlags == {"True", "False"}
DictFlags == {"True", None}

\* objects_data[lo:hi], a Python slice (0-based, upper end clamped)
PySliceOffByOne(s, lo, hi) == SubSeq(s, lo + 1, Min(hi + 1, Len(s)))
PySlice(s, lo, hi) == SubSeq(s, lo + 1, Min(hi, Len(s)))

\* batch = objects_data[i:i + batch_size]
batch == PySlice(objects_data, i, i + batch_size)

\* batch_num = i // batch_size + 1
batch_num == i \div batch_size + 1

\* time.sleep(5 * (retry + 1))
BackoffConstant(r) == 5
Backoff(r) == 5 * (r + 1)

\* if retry == max_retries - 1: raise
IsLastAttemptOneEarly(r) == r >= max_retries - 2
IsLastAttemptNever(r) == FALSE
IsLastAttempt(r) == r = max_retries - 1

\* the JSON bodies a successful PUT of batch b can answer with: a list with
\* one result per object, or a single result object
ListResponses(b) ==
    { [isList |-> TRUE,
       items |-> [k \in 1..Len(b) |-> [identifier |-> b[k], success |-> f[k]]]] :
        f \in [1..Len(b) -> ListFlags] }
DictResponses(b) ==
    { [isList |-> FALSE, items |-> <<[identifier |-> 0, success |-> f]>>] : f \in DictFlags }
Responses(b) == ListResponses(b) \cup DictResponses(b)
NoResponse == [isList |-> FALSE, items |-> <<>>]

\* if isinstance(resp_json, list): extend, else: append
AddResponseDropsDict(list, resp) == IF resp.isList THEN list \o resp.items ELSE list
AddResponse(list, resp) ==
    IF resp.isList THEN list \o resp.items ELSE Append(list, resp.items[1])

PutEvent(result, resp) ==
    [op |-> "put", batch |-> batch_num, attempt |-> retry + 1,
     payload |-> batch, result |-> result, resp |-> resp, secs |-> 0]
SleepEvent(s) ==
    [op |-> "sleep", batch |-> batch_num, attempt |-> retry + 1,
     payload |-> <<>>, result |-> None, resp |-> NoResponse, secs |-> s]

NoResult == [returned |-> FALSE, objects |-> <<>>, totalCount |-> 0]
NoReport == [shown |-> "nothing", total |-> 0, ok |-> 0, failed |-> 0]

\* the state at the call of update_objects(objects, bs, mr)
UpdateObjectsCall(objects, bs, mr) ==
    /\ objects_data = objects
    /\ batch_size = bs
    /\ max_retries = mr
    /\ i = 0
    /\ retry = 0
    /\ response_json_list = <<>>
    /\ upd_pc = "called"
    /\ upd_error = None
    /\ upd_result = NoResult
    /\ trace = <<>>
    /\ report = NoReport

\* return {"objects": response_json_list, "totalCount": len(response_json_list)}
ReturnValue(list) == [returned |-> TRUE, objects |-> list, totalCount |-> Len(list)]

\* the batch loop moves on from offset k with the results in list: the next
\* batch, or the return statement when range(0, len, batch_size) is exhausted
NextBatchSkipsOne(k, list) ==
    /\ i' = k + 2 * batch_size
    /\ retry' = 0
    /\ IF k + 2 * batch_size < Len(objects_data)
       THEN upd_pc' = "put" /\ upd_result' = upd_result
       ELSE upd_pc' = "returned" /\ upd_result' = ReturnValue(list)
NextBatch(k, list) ==
    /\ i' = k + batch_size
    /\ retry' = 0
    /\ IF k + batch_size < Len(objects_data)
       THEN upd_pc' = "put" /\ upd_result' = upd_result
       ELSE upd_pc' = "returned" /\ upd_result' = ReturnValue(list)

\* entering the batch loop: range(0, len(objects_data), batch_size)
UpdateObjectsEnter ==
    /\ upd_pc = "called"
    /\ IF 0 < Len(objects_data)
       THEN upd_pc' = "put" /\ upd_result' = upd_result
       ELSE upd_pc' = "returned" /\ upd_result' = ReturnValue(response_json_list)
    /\ UNCHANGED <<objects_data, batch_size, max_retries, i, retry,
                   response_json_list, upd_error, trace, report>>

\* requests.put succeeds and raise_for_status passes: the response is added
\* and the retry loop is left with break
PutSuccess ==
    /\ upd_pc = "put"
    /\ \E resp \in Responses(batch) :
          /\ response_json_list' = AddResponse(response_json_list, resp)
          /\ trace' = Append(trace, PutEvent("ok", resp))
          /\ NextBatch(i, AddResponse(response_json_list, resp))
    /\ UNCHANGED <<objects_data, batch_size, max_retries, upd_error, report>>

\* requests.put raises requests.Timeout or requests.ConnectionError
TransientErrors == {"Timeout", "ConnectionError"}

PutTransientFailure ==
    /\ upd_pc = "put"
    /\ \E e \in TransientErrors :
          IF IsLastAttempt(retry)
          THEN /\ upd_pc' = "raised"
               /\ upd_error' = e
               /\ trace' = Append(trace, PutEvent("transient", NoResponse))
               /\ UNCHANGED <<i, retry, upd_result>>
          ELSE /\ upd_error' = None
               /\ trace' = trace \o <<PutEvent("transient", NoResponse),
                                      SleepEvent(Backoff(retry))>>
               /\ IF retry + 1 < max_retries
                  THEN /\ retry' = retry + 1
                       /\ UNCHANGED <<i, upd_pc, upd_result>>
                  ELSE NextBatch(i, response_json_list)
    /\ UNCHANGED <<objects_data, batch_size, max_retries,
                   response_json_list, report>>

\* any other requests.RequestException: an HTTP error status (raised by
\* raise_for_status, it carries the response) or a request error without a
\* response (its attribute response is None then, hasattr(e, 'response') is
\* true and the debug print fails on None.status_code with an AttributeError)
RequestErrors == {"HTTPError", "NoResponseError"}

RaisedForRetries(e) == None
RaisedFor(e) == IF e = "HTTPError" THEN e ELSE "AttributeError"

PutRequestFailure ==
    /\ upd_pc = "put"
    /\ \E e \in RequestErrors :
          /\ upd_error' = RaisedFor(e)
          /\ upd_pc' = IF RaisedFor(e) = None THEN "put" ELSE "raised"
          /\ trace' = Append(trace, PutEvent(e, NoResponse))
    /\ UNCHANGED <<objects_data, batch_size, max_retries, i, retry,
                   response_json_list, upd_result, report>>

\* r.get("success") as a condition
IsSuccessAlways(r) == TRUE
IsSuccess(r) == r.success = "True"

\* not r.get("success")
IsFailureOnlyFalse(r) == r.success = "False"
IsFailure(r) == r.success # "True"

RECURSIVE CountSuccess(_)
\* sum(1 for r in response_objects if r.get("success"))
CountSuccess(rs) ==
    IF rs = <<>> THEN 0
    ELSE (IF IsSuccess(Head(rs)) THEN 1 ELSE 0) + CountSuccess(Tail(rs))

RECURSIVE CountFailure(_)
\* sum(1 for r in response_objects if not r.get("success"))
CountFailure(rs) ==
    IF rs = <<>> THEN 0
    ELSE (IF IsFailure(Head(rs)) THEN 1 ELSE 0) + CountFailure(Tail(rs))

\* upload_to_vip after update_objects returned: the upload report
UploadReport ==
    /\ upd_pc = "returned"
    /\ upd_pc' = "done"
    /\ report' = [shown |-> "report",
                  total |-> Len(upd_result.objects),
                  ok |-> CountSuccess(upd_result.objects),
                  failed |-> CountFailure(upd_result.objects)]
    /\ UNCHANGED <<objects_data, batch_size, max_retries, i, retry,
                   response_json_list, upd_error, upd_result, trace>>

\* upload_to_vip after update_objects raised: except Exception, st.error
UploadError ==
    /\ upd_pc = "raised"
    /\ upd_pc' = "done"
    /\ report' = [shown |-> "error", total |-> 0, ok |-> 0, failed |-> 0]
    /\ UNCHANGED <<objects_data, batch_size, max_retries, i, retry,
                   response_json_list, upd_error, upd_result, trace>>

(***************************************************************************)
(* The paginated download: APIClient.get_all_objects, the page requests of *)
(* APIClient.get_objects, and the callers that fetch a dataset.            *)
(***************************************************************************)
MaxStored == 4
MaxPageSize == 2

VARIABLES
    caller,            \* who fetches: "api", "ExcelDownloader", "DatasetDownloader"
    complex_selectie,  \* DatasetDownloader: the selected complexes
    complex_pos,       \* DatasetDownloader: complexes fetched so far
    all_dataset_data,  \* the caller's collected objects
    dl_pc,             \* the caller: "idle", "start", "fetching", "built", "failed"
    call,              \* the keyword arguments of the get_all_objects call
    page_size,         \* get_all_objects: the bound parameter page_size
    current_page,      \* get_all_objects: current_page
    all_objects,       \* get_all_objects: all_objects
    requests,          \* every page request sent, in order, with its response
    fetch_pc,          \* "idle", "request", "returned", "raised"
    fetch_error,       \* the exception that left get_all_objects, or None
    fetch_result,      \* the dictionary get_all_objects returned
    server_count,      \* the API: number of objects that match the request
    server_cap         \* the API: the most objects it puts on one page

fetchVars == <<caller, complex_selectie, complex_pos, all_dataset_data, dl_pc, call,
               page_size, current_page, all_objects, requests, fetch_pc,
               fetch_error, fetch_result, server_count, server_cap>>

\* def get_all_objects(self, object_type, attributes=None, identifier=None,
\*                     only_active=False, page_size=1000, st=None)
GetAllObjectsParams ==
    {"object_type", "attributes", "identifier", "only_active", "page_size", "st"}
DefaultPageSize == 1000

Complexes == {"c1", "c2"}
NoFilter == <<>>
NoCall == [keywords |-> {}, object_type |-> None, attributes |-> <<>>,
           identifier |-> None, only_active |-> FALSE, page_size |-> DefaultPageSize,
           filter_params |-> NoFilter]
NoFetchResult == [returned |-> FALSE, objects |-> <<>>, totalCount |-> 0, pageSize |-> 0]

\* the attribute names of the dataset configuration
ConfigAttributeNames == <<"Dakpartner", "Jaar laatste dakonderhoud">>

\* ExcelDownloader.generate_excel and handle_excel_download:
\* get_all_objects(object_type=, attributes=, only_active=True, st=st)
ExcelDownloaderCall ==
    [NoCall EXCEPT !.keywords = {"object_type", "attributes", "only_active", "st"},
                   !.object_type = "Building",
                   !.attributes = ConfigAttributeNames,
                   !.only_active = TRUE]

\* DatasetDownloader.generate_excel: get_all_objects(object_type=, attributes=,
\* only_active=True, filter_params=filter_params, st=st), the filter being
\* {"Cluster": complex_id}, or {} when no complex is selected
DatasetDownloaderCall(filter) ==
    [NoCall EXCEPT !.keywords = {"object_type", "attributes", "only_active",
                                 "filter_params", "st"},
                   !.object_type = "Building",
                   !.attributes = ConfigAttributeNames,
                   !.only_active = TRUE,
                   !.filter_params = filter]

ClusterFilter(complex_id) == <<<<"Cluster", complex_id>>>>

\* a call of the API client itself, with any page size, attribute list and
\* identifier filter
ApiCalls ==
    { [NoCall EXCEPT !.keywords = {"object_type", "attributes", "identifier",
                                   "only_active", "page_size"},
                     !.object_type = "Building",
                     !.attributes = at,
                     !.identifier = id,
                     !.only_active = oa,
                     !.page_size = ps] :
        at \in {<<>>, ConfigAttributeNames}, id \in {None, "B1"},
        oa \in BOOLEAN, ps \in 1..MaxPageSize }

\* Python binds the keywords of a call to the parameters of the function; a
\* keyword that is no parameter raises TypeError
BindsAnything(c) == TRUE
Binds(c) == c.keywords \subseteq GetAllObjectsParams

\* get_objects: the query parameters of one page request; attributes and
\* identifier are sent only when given (if attributes:, if identifier:)
PageParams(c, page) ==
    [objectType |-> c.object_type,
     onlyActive |-> IF c.only_active THEN "true" ELSE "false",
     page |-> page,
     pageSize |-> c.page_size,
     attributes |-> c.attributes,
     identifier |-> c.identifier]

\* the API: page p of the matching objects 1..server_count, in pages of ps
\* objects, or of server_cap objects when the API allows no more than that
ServerPage(p, ps) ==
    LET eff == Min(ps, server_cap)
        lo == p * eff + 1
        hi == Min((p + 1) * eff, server_count)
    IN  [k \in 1..(IF hi >= lo THEN hi - lo + 1 ELSE 0) |-> lo + k - 1]

\* get_objects: a list answer is wrapped, {"objects": data, ...}; a
\* dictionary answer is returned as it is
ResponseForms == {"dict", "list"}
GetObjectsResult(form, objs) ==
    IF form = "list"
    THEN [objects |-> objs, totalCount |-> Len(objs)]
    ELSE [objects |-> objs, totalCount |-> server_count]

\* if len(current_page_objects) < page_size: break
IsLastPageWhenEmpty(objs, ps) == Len(objs) = 0
IsLastPageOrFull(objs, ps) == Len(objs) <= ps
IsLastPage(objs, ps) == Len(objs) < ps

FetchIdle ==
    /\ caller = None
    /\ complex_selectie = <<>>
    /\ complex_pos = 0
    /\ all_dataset_data = <<>>
    /\ dl_pc = "idle"
    /\ call = NoCall
    /\ page_size = DefaultPageSize
    /\ current_page = 0
    /\ all_objects = <<>>
    /\ requests = <<>>
    /\ fetch_pc = "idle"
    /\ fetch_error = None
    /\ fetch_result = NoFetchResult
    /\ server_count = 0
    /\ server_cap = 0

\* the call the caller makes next
NextCall ==
    IF caller = "ExcelDownloader" THEN {ExcelDownloaderCall}
    ELSE IF caller = "DatasetDownloader"
         THEN {DatasetDownloaderCall(
                  IF complex_selectie = <<>> THEN NoFilter
                  ELSE ClusterFilter(complex_selectie[complex_pos + 1]))}
         ELSE ApiCalls

\* the caller calls get_all_objects: the keywords are bound (or TypeError is
\* raised), all_objects = [], current_page = 0
GetAllObjectsCall ==
    /\ dl_pc = "start"
    /\ \E c \in NextCall :
          /\ call' = c
          /\ IF Binds(c)
             THEN /\ fetch_pc' = "request"
                  /\ fetch_error' = None
                  /\ page_size' = c.page_size
             ELSE /\ fetch_pc' = "raised"
                  /\ fetch_error' = "TypeError"
                  /\ page_size' = page_size
    /\ dl_pc' = "fetching"
    /\ current_page' = 0
    /\ all_objects' = <<>>
    /\ fetch_result' = NoFetchResult
    /\ UNCHANGED <<caller, complex_selectie, complex_pos, all_dataset_data,
                   requests, server_count, server_cap>>

\* one turn of the while loop: get_objects fetches the page current_page,
\* the objects are appended, and the loop ends on a short page
GetObjectsPage ==
    /\ fetch_pc = "request"
    /\ \E form \in ResponseForms :
          LET resp == GetObjectsResult(form, ServerPage(current_page, page_size))
              objs == resp.objects
          IN  /\ requests' = Append(requests,
                     [fetch |-> complex_pos, params |-> PageParams(call, current_page),
                      filter_params |-> NoFilter, form |-> form, objects |-> objs])
              /\ all_objects' = all_objects \o objs
              /\ IF IsLastPage(objs, page_size)
                 THEN /\ fetch_pc' = "returned"
                      /\ fetch_result' = [returned |-> TRUE,
                                          objects |-> all_objects \o objs,
                                          totalCount |-> Len(all_objects \o objs),
                                          pageSize |-> page_size]
                      /\ current_page' = current_page
                 ELSE /\ current_page' = current_page + 1
                      /\ UNCHANGED <<fetch_pc, fetch_result>>
    /\ UNCHANGED <<caller, complex_selectie, complex_pos, all_dataset_data, dl_pc,
                   call, page_size, fetch_error, server_count, server_cap>>

\* get_objects: response.raise_for_status() raises, get_all_objects does not
\* catch it
GetObjectsHttpError ==
    /\ fetch_pc = "request"
    /\ requests' = Append(requests,
           [fetch |-> complex_pos, params |-> PageParams(call, current_page),
            filter_params |-> NoFilter, form |-> "error", objects |-> <<>>])
    /\ fetch_pc' = "raised"
    /\ fetch_error' = "HTTPError"
    /\ UNCHANGED <<caller, complex_selectie, complex_pos, all_dataset_data, dl_pc,
                   call, page_size, current_page, all_objects, fetch_result,
                   server_count, server_cap>>

\* the caller takes the objects of the returned dictionary; DatasetDownloader
\* goes on with the next selected complex
CollectObjects ==
    /\ dl_pc = "fetching"
    /\ fetch_pc = "returned"
    /\ all_dataset_data' = all_dataset_data \o fetch_result.objects
    /\ IF caller = "DatasetDownloader" /\ complex_pos + 1 < Len(complex_selectie)
       THEN complex_pos' = complex_pos + 1 /\ dl_pc' = "start"
       ELSE complex_pos' = complex_pos /\ dl_pc' = "built"
    /\ fetch_pc' = "idle"
    /\ UNCHANGED <<caller, complex_selectie, call, page_size, current_page,
                   all_objects, requests, fetch_error, fetch_result,
                   server_count, server_cap>>

\* the exception of get_all_objects leaves the caller (DatasetDownloader
\* reports it and raises it again)
FetchFailed ==
    /\ dl_pc = "fetching"
    /\ fetch_pc = "raised"
    /\ dl_pc' = "failed"
    /\ UNCHANGED <<caller, complex_selectie, complex_pos, all_dataset_data, call,
                   page_size, current_page, all_objects, requests, fetch_pc,
                   fetch_error, fetch_result, server_count, server_cap>>

(***************************************************************************)
(* The import flow: handle_excel_upload validates the uploaded sheet with  *)
(* ExcelValidator, and on the button translates its rows with              *)
(* prepare_data_to_send and uploads them with upload_to_vip.               *)
(***************************************************************************)
MaxRows == 2

VARIABLES
    entry,              \* what runs: "handle_excel_upload", or "components"
                        \* (the validator and the translator, each called
                        \* on the sheet)
    df,                 \* the sheet as read: [columns, rows]
    metadata,           \* what get_metadata answered: [objectTypes]
    field_metadata,     \* metadata_map[api_field] of the configured field
    imp_pc,             \* position in the flow
    imp_error,          \* the exception that ended the flow, or None
    validation_errors,  \* the list validate_excel returned
    df_clean,           \* the rows after df.replace([inf, -inf, nan], None)
    row_pos,            \* prepare_data_to_send: rows iterated so far
    data_to_send        \* prepare_data_to_send: data_to_send

impVars == <<entry, df, metadata, field_metadata, imp_pc, imp_error, validation_errors,
             df_clean, row_pos, data_to_send>>

\* update_objects(objects_data, batch_size=100, timeout=300, max_retries=3)
DefaultBatchSize == 100
DefaultMaxRetries == 3

\* the dataset configuration: objectType and one attribute
ConfigObjectType == "Building"
AttributeName == ConfigAttributeNames[1]
ExcelColumnName == "Dakpartner naam"
\* columns_mapping = {attr["excelColumnName"]: attr["AttributeName"]}
ColumnsMapping == <<<<ExcelColumnName, AttributeName>>>>
\* reverse_mapping = {v: k for k, v in columns_mapping.items()}
ReverseMapping == [k \in DOMAIN ColumnsMapping |-> <<ColumnsMapping[k][2], ColumnsMapping[k][1]>>]

\* cell values: a value with its Python type
NaN == [t |-> "nan", v |-> ""]
PyNone == [t |-> "none", v |-> ""]
PyText(x) == [t |-> "str", v |-> x]
PyInt(x) == [t |-> "int", v |-> x]
\* the cell of a column the sheet does not have
NoCell == [t |-> "absent", v |-> ""]

\* pd.isna(value), pd.isnull(value)
IsNa(c) == c.t \in {"nan", "none"}
\* str(value)
PyStr(c) == IF c.t = "nan" THEN "nan" ELSE IF c.t = "none" THEN "None" ELSE c.v
\* str.lower() on the strings of the model
Lower(x) ==
    IF x \in {"Ja", "JA"} THEN "ja" ELSE IF x \in {"Nee", "NEE"} THEN "nee" ELSE x

\* the sheets of the model: any set of the columns objectType, identifier,
\* the configured column and a column that is not configured; an objectType
\* cell is right, blank or wrong, an identifier cell is filled or blank, a
\* cell of the configured column is a text, a number or blank
SheetColumns == {"objectType", "identifier", ExcelColumnName, "Extra"}
RowKinds ==
    [objectType : {PyText(ConfigObjectType), NaN, PyText("Unit")},
     identifier : {PyText("B1"), NaN},
     field : {PyText("Ja"), PyInt("7"), NaN}]
MaskRow(row, cols) ==
    [objectType |-> IF "objectType" \in cols THEN row.objectType ELSE NoCell,
     identifier |-> IF "identifier" \in cols THEN row.identifier ELSE NoCell,
     field |-> IF ExcelColumnName \in cols THEN row.field ELSE NoCell]
Sheets ==
    { [columns |-> cols, rows |-> [k \in 1..n |-> MaskRow(rs[k], cols)]] :
        cols \in SUBSET SheetColumns, n \in 0..MaxRows,
        rs \in [1..MaxRows -> RowKinds] }

\* metadata_map[api_field]: the attribute's metadata, or {} when the
\* metadata has no attribute of that name
NoMetadata == [known |-> FALSE, name |-> None, type |-> None, required |-> FALSE]
FieldMetadatas ==
    {NoMetadata} \cup
    { [known |-> TRUE, name |-> AttributeName, type |-> ty, required |-> rq] :
        ty \in {"STRING", "BOOLEAN"}, rq \in BOOLEAN }

\* the attribute lists of an object type in the metadata: without the
\* configured attribute, with it, or with it under a name with a suffix
SuffixedName == "Dakpartner - Woonstad"
AttributeLists ==
    {<<>>} \cup {<<a>> : a \in FieldMetadatas \ {NoMetadata}}
           \cup {<<[known |-> TRUE, name |-> SuffixedName, type |-> "STRING",
                    required |-> FALSE]>>}

\* the answers of get_metadata: no object type, another object type only,
\* or the configured object type, alone or after another one
OtherObjectType == "Unit"
NoAttributes == <<>>
Metadatas ==
    { [objectTypes |-> <<>>],
      [objectTypes |-> <<[name |-> OtherObjectType, attributes |-> NoAttributes]>>] }
    \cup { [objectTypes |-> <<[name |-> ConfigObjectType, attributes |-> as]>>] :
              as \in AttributeLists }
    \cup { [objectTypes |-> <<[name |-> OtherObjectType, attributes |-> NoAttributes],
                             [name |-> ConfigObjectType, attributes |-> as]>>] :
              as \in {<<>>} }

\* get_object_type_data: the first object type of that name (its position),
\* or none (0), for which ValueError is raised
GetObjectTypeDataFirstEntry(md, object_type) ==
    IF md.objectTypes = <<>> THEN 0 ELSE 1
GetObjectTypeData(md, object_type) ==
    LET found == {k \in DOMAIN md.objectTypes : md.objectTypes[k].name = object_type}
    IN  IF found = {} THEN 0 ELSE CHOOSE k \in found : \A j \in found : k <= j

\* the full name taken for the simple name
SimpleNameIsFullName(full_name) == full_name
\* full_name.split(" - ")[0] if " - " in full_name else full_name
SimpleName(full_name) == IF full_name = SuffixedName THEN "Dakpartner" ELSE full_name

\* an index in which an attribute never replaces an earlier one
MapConfigAttributeFirst(attributes, attr_name) ==
    LET stored == {k \in DOMAIN attributes :
                      attr_name \in {attributes[k].name, SimpleName(attributes[k].name)}}
    IN  IF stored = {} THEN NoMetadata
        ELSE attributes[CHOOSE k \in stored : \A j \in stored : k <= j]
\* create_attribute_mapping and map_config_attributes_to_metadata: every
\* attribute is stored under its full and under its simple name, a later
\* attribute replacing an earlier one; the configured attribute gets what is
\* stored under its name, or {}
MapConfigAttribute(attributes, attr_name) ==
    LET stored == {k \in DOMAIN attributes :
                      attr_name \in {attributes[k].name, SimpleName(attributes[k].name)}}
    IN  IF stored = {} THEN NoMetadata
        ELSE attributes[CHOOSE k \in stored : \A j \in stored : j <= k]

\* build_metadata_map(metadata, config)[AttributeName], given the position
\* of the object type
BuildMetadataMap(md, pos) == MapConfigAttribute(md.objectTypes[pos].attributes, AttributeName)

ObjectTypeNotFound == "ValueError: Object type niet gevonden in metadata"
MetadataErrors == {ObjectTypeNotFound, "IndexError: objectTypes"}

(***************************************************************************)
(* The value conversions: ExcelHandler.create_excel_file turns API values  *)
(* into cells (export), DataTypeMapper.convert_value and                   *)
(* convert_cell_value turn cells into API values (import).                 *)
(***************************************************************************)
\* a point in time: <<year, month, day, hour, minute, second>>
Pad2(n) == IF n < 10 THEN "0" \o ToString(n) ELSE ToString(n)
\* the timestamp as the API writes it, "2014-12-31T23:00:00Z"
IsoText(d) ==
    ToString(d[1]) \o "-" \o Pad2(d[2]) \o "-" \o Pad2(d[3]) \o "T"
        \o Pad2(d[4]) \o ":" \o Pad2(d[5]) \o ":" \o Pad2(d[6]) \o "Z"
\* strftime("%d-%m-%Y"), strftime("%Y-%m-%d"), strftime("%H:%M:%S")
StrfDayFirst(d) == Pad2(d[3]) \o "-" \o Pad2(d[2]) \o "-" \o ToString(d[1])
StrfYearFirst(d) == ToString(d[1]) \o "-" \o Pad2(d[2]) \o "-" \o Pad2(d[3])
StrfTime(d) == Pad2(d[4]) \o ":" \o Pad2(d[5]) \o ":" \o Pad2(d[6])

\* d + pd.Timedelta(hours=1): the next hour, of the next day at 23 hours
PlusOneHour(d) ==
    LET leap == (d[1] % 4 = 0 /\ d[1] % 100 # 0) \/ d[1] % 400 = 0
        days_in_month == IF d[2] = 2 THEN (IF leap THEN 29 ELSE 28)
                         ELSE IF d[2] \in {4, 6, 9, 11} THEN 30 ELSE 31
        next_day == IF d[3] < days_in_month THEN <<d[1], d[2], d[3] + 1>>
                    ELSE IF d[2] < 12 THEN <<d[1], d[2] + 1, 1>>
                    ELSE <<d[1] + 1, 1, 1>>
    IN  IF d[4] < 23 THEN <<d[1], d[2], d[3], d[4] + 1, d[5], d[6]>>
        ELSE next_day \o <<0, d[5], d[6]>>

\* the years of the model, and its points in time: those years, on some
\* days, at some times of day
Years == {1899, 1900, 2014, 2015, 2016, 2100, 2101}
Moments ==
    {<<y>> \o md \o hms :
        y \in Years,
        md \in {<<1, 1>>, <<2, 28>>, <<6, 15>>, <<12, 30>>, <<12, 31>>},
        hms \in {<<0, 0, 0>>, <<12, 30, 0>>, <<22, 59, 59>>, <<23, 0, 0>>, <<23, 0, 1>>,
                 <<23, 30, 0>>}}

\* pd.to_datetime on the texts of the model: an ISO timestamp, a year
\* ("2015" is the first of January of that year), anything else is no date
IsIsoText(x) == \E d \in Moments : IsoText(d) = x
IsYearText(x) == \E y \in Years : ToString(y) = x
ParseText(x) ==
    IF IsIsoText(x) THEN CHOOSE d \in Moments : IsoText(d) = x
    ELSE CHOOSE d \in {<<y, 1, 1, 0, 0, 0>> : y \in Years} : ToString(d[1]) = x
\* int(x), float(x) for a text of digits
Ints == Years \cup {7}
IsIntText(x) == \E n \in Ints : ToString(n) = x
ParseInt(x) == CHOOSE n \in Ints : ToString(n) = x
\* float(x): a finite number is its sign, its whole part and the digits of
\* its fraction ("" for a whole number); "inf" is infinite, "nan" is not a
\* number, and for any other text ValueError is raised (k = "error")
Float(k, neg, whole, frac) == [k |-> k, neg |-> neg, whole |-> whole, frac |-> frac]
ParseFloat(x) ==
    IF IsIntText(x) THEN Float("num", FALSE, ParseInt(x), "")
    ELSE IF x = "7.0" THEN Float("num", FALSE, 7, "")
    ELSE IF x = "7.9" THEN Float("num", FALSE, 7, "9")
    ELSE IF x = "7.50" THEN Float("num", FALSE, 7, "5")
    ELSE IF x = "-7.9" THEN Float("num", TRUE, 7, "9")
    ELSE IF x = "-7.0" THEN Float("num", TRUE, 7, "")
    ELSE IF x = "inf" THEN Float("inf", FALSE, 0, "")
    ELSE IF x = "nan" THEN Float("nan", FALSE, 0, "")
    ELSE Float("error", FALSE, 0, "")
\* int(f) of a finite float: the fraction is dropped
IntOfFloat(f) == IF f.neg THEN 0 - f.whole ELSE f.whole
\* str(f)
StrOfFloat(f) ==
    IF f.k # "num" THEN f.k
    ELSE (IF f.neg THEN "-" ELSE "") \o ToString(f.whole) \o "."
            \o (IF f.frac = "" THEN "0" ELSE f.frac)
\* pd.to_datetime(value): a number counts nanoseconds from the epoch, a text
\* is parsed; NaT stands for a text that is no date (with errors='coerce'
\* the result is NaT, without it ValueError is raised, and "" is NaT in
\* both cases)
NaT == <<>>
ToDatetime(value) ==
    IF value.t = "int" THEN <<1970, 1, 1, 0, 0, 0>>
    ELSE IF IsIsoText(value.v) \/ IsYearText(value.v) THEN ParseText(value.v)
    ELSE NaT
Unparseable(value) == value.t = "str" /\ value.v # "" /\ ToDatetime(value) = NaT

\* ExcelValidator._create_error; row is the row number or "N/A"
CreateError(row, column, error, found, expected) ==
    [row |-> row, column |-> column, error |-> error,
     found |-> found, expected |-> expected]
\* the index of the row taken for its number in the sheet
RowNumIsIndex(k) == ToString(k - 1)
\* row_num = idx + 2
RowNum(k) == ToString((k - 1) + 2)

\* ExcelValidator._validate_required_columns: the system column identifier
\* must be there, and must not be blank in any row
MissingSystemColumn(col) ==
    CreateError("N/A", col, "Verplichte systeemkolom ontbreekt",
                "Kolom ontbreekt", "Kolom moet aanwezig zijn")
BlankIdentifier(sheet, k) ==
    IF IsNa(sheet.rows[k].identifier)
    THEN <<CreateError(RowNum(k), "identifier", "Verplichte systeemkolom mag niet leeg zijn",
                       "Lege waarde", "Niet-lege waarde")>>
    ELSE <<>>
ValidateRequiredColumns(sheet) ==
    IF "identifier" \notin sheet.columns
    THEN <<MissingSystemColumn("identifier")>>
    ELSE Concat([k \in DOMAIN sheet.rows |-> BlankIdentifier(sheet, k)])

\* _get_column_sets: config_columns
ConfigColumns ==
    {ReverseMapping[k][2] : k \in DOMAIN ReverseMapping} \cup {"objectType", "identifier"}

\* ExcelValidator._validate_missing_columns: a column of the configuration
\* that the sheet lacks is an error when its attribute is required
ValidateMissingColumns(sheet, meta) ==
    IF /\ ExcelColumnName \in ConfigColumns \ sheet.columns
       /\ meta.required
    THEN <<CreateError("N/A", ExcelColumnName, "Verplichte kolom ontbreekt",
                       "Kolom ontbreekt", "Kolom moet aanwezig zijn")>>
    ELSE <<>>

\* ExcelValidator._validate_extra_columns
ValidateExtraColumns(sheet) ==
    IF "Extra" \in sheet.columns \ ConfigColumns
    THEN <<CreateError("N/A", "Extra", "Onbekende kolom aanwezig", "Extra kolom",
                       "Kolom niet gedefinieerd in configuratie")>>
    ELSE <<>>

\* ExcelValidator._validate_columns
ValidateColumns(sheet, meta) ==
    ValidateRequiredColumns(sheet) \o ValidateMissingColumns(sheet, meta)
        \o ValidateExtraColumns(sheet)

\* ExcelValidator._validate_value_type: there are checks for STRING (a
\* number is turned into its string first), NUMBER, BOOLEAN and DATE
IsBooleanCellExact(value) == PyStr(value) \in {"Ja", "Nee"}
IsBooleanCell(value) == Lower(PyStr(value)) \in {"ja", "nee"}
ValidateValueType(row, column, value, meta) ==
    IF ~meta.known THEN <<>>
    ELSE IF meta.type = "STRING"
         THEN IF value.t \in {"str", "int"} THEN <<>>
              ELSE <<CreateError(row, column, "Waarde moet een tekst zijn",
                                 PyStr(value), "string")>>
    ELSE IF meta.type = "NUMBER"
         THEN IF ParseFloat(value.v).k # "error" THEN <<>>
              ELSE <<CreateError(row, column, "Waarde moet een getal zijn",
                                 PyStr(value), "getal")>>
    ELSE IF meta.type = "BOOLEAN"
         THEN IF IsBooleanCell(value) THEN <<>>
              ELSE <<CreateError(row, column, "Waarde moet Ja, Nee of leeg zijn",
                                 PyStr(value), "Ja, Nee of leeg")>>
    ELSE IF meta.type = "DATE"
         THEN IF ~Unparseable(value) THEN <<>>
              ELSE <<CreateError(row, column, "Waarde moet een geldige datum zijn",
                                 PyStr(value), "datum (bijv. 01-01-2023)")>>
    ELSE <<>>

\* ExcelValidator._validate_value_format: the check of a year is made for
\* metadata with an entry "dataFormat"
MinYear == 1900
MaxYear == 2100
IsYearInRange(value) == IsIntText(value.v) /\ ParseInt(value.v) \in MinYear..MaxYear
ValidateValueFormat(row, column, value, meta) ==
    IF "dataFormat" \notin DOMAIN meta THEN <<>>
    ELSE IF meta.dataFormat = "yyyy" /\ ~IsYearInRange(value)
    THEN <<CreateError(row, column, "Waarde moet een geldig jaartal zijn",
                       PyStr(value), "jaartal tussen 1900-2100")>>
    ELSE <<>>

\* ExcelValidator._validate_column_data, for one row: a blank cell is an
\* error only in a required field; another cell has its type and its format
\* checked; the metadata of the model has no "attributeValueOptions" entry,
\* so the allowed-values check returns no errors
ValidateCell(sheet, meta, k) ==
    LET value == sheet.rows[k].field
    IN  IF IsNa(value)
        THEN IF meta.required
             THEN <<CreateError(RowNum(k), ExcelColumnName,
                                "Verplicht veld mag niet leeg zijn", "Leeg", "Niet leeg")>>
             ELSE <<>>
        ELSE ValidateValueType(RowNum(k), ExcelColumnName, value, meta)
                \o ValidateValueFormat(RowNum(k), ExcelColumnName, value, meta)

\* ExcelValidator._validate_data_in_columns: every configured column must
\* be in the sheet
ValidateDataInColumns(sheet, meta) ==
    IF ExcelColumnName \notin sheet.columns
    THEN <<CreateError("N/A", ExcelColumnName, "Verplichte kolom ontbreekt",
                       "Kolom ontbreekt", "Kolom aanwezig")>>
    ELSE Concat([k \in DOMAIN sheet.rows |-> ValidateCell(sheet, meta, k)])

\* ExcelValidator._validate_object_type
WrongObjectType(sheet, k) ==
    LET value == sheet.rows[k].objectType
    IN  IF IsNa(value)
        THEN <<CreateError(RowNum(k), "objectType", "Verplichte systeemkolom mag niet leeg zijn",
                           "Lege waarde", "Niet-lege waarde")>>
        ELSE IF PyStr(value) # ConfigObjectType
        THEN <<CreateError(RowNum(k), "objectType",
                           "ObjectType komt niet overeen met configuratie",
                           PyStr(value), ConfigObjectType)>>
        ELSE <<>>
ValidateObjectType(sheet) ==
    IF "objectType" \notin sheet.columns
    THEN <<MissingSystemColumn("objectType")>>
    ELSE Concat([k \in DOMAIN sheet.rows |-> WrongObjectType(sheet, k)])

\* ExcelValidator.validate_excel
ValidateExcel(sheet, meta) ==
    ValidateColumns(sheet, meta) \o ValidateDataInColumns(sheet, meta)
        \o ValidateObjectType(sheet)

\* if validation_errors: the errors are shown, and nothing else happens
BlocksOnSeveral(errors) == Len(errors) > 1
Blocks(errors) == errors # <<>>

\* df.replace([inf, -inf, nan], None)
ReplaceNaN(c) == IF c.t = "nan" THEN PyNone ELSE c
CleanRow(row) ==
    [objectType |-> ReplaceNaN(row.objectType),
     identifier |-> ReplaceNaN(row.identifier),
     field |-> ReplaceNaN(row.field)]

\* if "identifier" not in df.columns: raise ValueError
HasIdentifierAlways(sheet) == TRUE
HasIdentifier(sheet) == "identifier" \in sheet.columns

\* DataTypeMapper._convert_date: a value that is no date raises, and the
\* result is None; NaT has the year nan, and NaT.strftime raises
ConvertDateDefaultFormat(value, date_format) ==
    LET d == ToDatetime(value)
    IN  IF Unparseable(value) \/ d = NaT THEN PyNone
        ELSE IF date_format = "dd-MM-yyyy" THEN PyText(StrfDayFirst(d))
        ELSE PyText(StrfYearFirst(d))
ConvertDate(value, date_format) ==
    LET d == ToDatetime(value)
    IN  IF Unparseable(value) THEN PyNone
        ELSE IF date_format = "yyyy"
             THEN PyText(IF d = NaT THEN "nan" ELSE ToString(d[1]))
        ELSE IF d = NaT THEN PyNone
        ELSE IF date_format = "dd-MM-yyyy" THEN PyText(StrfDayFirst(d))
        ELSE PyText(StrfYearFirst(d))
\* DataTypeMapper._convert_int: int(float(value)), None when that raises
ConvertInt(value) ==
    LET f == ParseFloat(value.v)
    IN  IF f.k = "num" THEN PyInt(ToString(IntOfFloat(f))) ELSE PyNone
\* int(float('inf')) raises OverflowError, which _convert_int does not catch
ConvertIntRaises(value) == ParseFloat(value.v).k = "inf"
\* DataTypeMapper._convert_float: a whole number becomes an int, a value
\* that is no number is converted with str()
ConvertFloatAsText(value) ==
    LET f == ParseFloat(value.v)
    IN  IF f.k = "error" THEN PyText(PyStr(value)) ELSE PyText(StrOfFloat(f))
ConvertFloat(value) ==
    LET f == ParseFloat(value.v)
    IN  IF f.k = "error" THEN PyText(PyStr(value))
        ELSE IF f.k = "num" /\ f.frac = "" THEN PyInt(ToString(IntOfFloat(f)))
        ELSE PyText(StrOfFloat(f))
\* DataTypeMapper._convert_string
ConvertString(value) == PyText(PyStr(value))

\* DataTypeMapper.convert_value: a null becomes None; DATE, INT and FLOAT
\* have their own conversions, every other type is converted with str()
ConvertValue(value, meta) ==
    IF IsNa(value) THEN PyNone
    ELSE IF meta.type = "DATE" THEN ConvertDate(value, meta.dateFormat)
    ELSE IF meta.type = "INT" THEN ConvertInt(value)
    ELSE IF meta.type = "FLOAT" THEN ConvertFloat(value)
    ELSE ConvertString(value)

\* one object of data_to_send
DataObject(row, meta) ==
    [objectType |-> ConfigObjectType,
     identifier |-> PyStr(row.identifier),
     attributes |-> <<<<AttributeName, ConvertValue(row.field, meta)>>>>]

ImpIdle ==
    /\ entry = None
    /\ df = [columns |-> {}, rows |-> <<>>]
    /\ metadata = [objectTypes |-> <<>>]
    /\ field_metadata = NoMetadata
    /\ imp_pc = "idle"
    /\ imp_error = None
    /\ validation_errors = <<>>
    /\ df_clean = <<>>
    /\ row_pos = 0
    /\ data_to_send = <<>>

\* handle_excel_upload: get_metadata answers
GetMetadata ==
    /\ imp_pc = "uploaded"
    /\ imp_pc' = "metadata"
    /\ UNCHANGED <<entry, df, metadata, field_metadata, imp_error, validation_errors,
                   df_clean, row_pos, data_to_send>>

\* handle_excel_upload: get_metadata raises; the error is shown, return
GetMetadataFails ==
    /\ imp_pc = "uploaded"
    /\ imp_pc' = "ended"
    /\ UNCHANGED <<entry, df, metadata, field_metadata, imp_error, validation_errors,
                   df_clean, row_pos, data_to_send>>

\* handle_excel_upload reads metadata["objectTypes"][0] (IndexError on an
\* empty list), reads the sheet and calls build_metadata_map, which raises
\* ValueError when get_object_type_data finds no object type of the name
BuildMetadataMapStep ==
    /\ imp_pc = "metadata"
    /\ LET pos == GetObjectTypeData(metadata, ConfigObjectType)
       IN  IF entry = "handle_excel_upload" /\ metadata.objectTypes = <<>>
           THEN /\ imp_pc' = "raised"
                /\ imp_error' = "IndexError: objectTypes"
                /\ UNCHANGED field_metadata
           ELSE IF pos = 0
           THEN /\ imp_pc' = "raised"
                /\ imp_error' = ObjectTypeNotFound
                /\ UNCHANGED field_metadata
           ELSE /\ imp_pc' = "read"
                /\ field_metadata' = BuildMetadataMap(metadata, pos)
                /\ UNCHANGED imp_error
    /\ UNCHANGED <<entry, df, metadata, validation_errors, df_clean, row_pos,
                   data_to_send>>

\* validation_errors = validator.validate_excel(df); in handle_excel_upload
\* the errors are shown, or the upload button is
ValidateExcelStep ==
    /\ imp_pc = "read"
    /\ validation_errors' = ValidateExcel(df, field_metadata)
    /\ IF entry = "components"
       THEN imp_pc' = "prepare" /\ df_clean' = df.rows
       ELSE /\ imp_pc' = IF Blocks(ValidateExcel(df, field_metadata))
                         THEN "blocked" ELSE "validated"
            /\ df_clean' = df_clean
    /\ UNCHANGED <<entry, df, metadata, field_metadata, imp_error, row_pos, data_to_send>>

\* the user presses "Upload naar VIP": df_clean, and st.write(df_clean.iloc[0])
\* which raises IndexError on a sheet without rows
PressUpload ==
    /\ imp_pc = "validated"
    /\ df_clean' = [k \in DOMAIN df.rows |-> CleanRow(df.rows[k])]
    /\ IF df.rows = <<>>
       THEN imp_pc' = "raised" /\ imp_error' = "IndexError"
       ELSE imp_pc' = "prepare" /\ imp_error' = imp_error
    /\ UNCHANGED <<entry, df, metadata, field_metadata, validation_errors, row_pos, data_to_send>>

\* prepare_data_to_send is entered: the identifier column is checked and
\* data_to_send = []
PrepareDataToSend ==
    /\ imp_pc = "prepare"
    /\ IF HasIdentifier(df)
       THEN imp_pc' = "rows" /\ imp_error' = imp_error
       ELSE imp_pc' = "raised" /\ imp_error' = "ValueError"
    /\ row_pos' = 0
    /\ data_to_send' = <<>>
    /\ UNCHANGED <<entry, df, metadata, field_metadata, validation_errors, df_clean>>

\* one turn of for _, row in df.iterrows(): row[col] and row["identifier"]
\* raise KeyError when the sheet has no such column
TranslateRow ==
    /\ imp_pc = "rows"
    /\ row_pos < Len(df_clean)
    /\ IF {ExcelColumnName, "identifier"} \subseteq df.columns
       THEN /\ data_to_send' = Append(data_to_send,
                                      DataObject(df_clean[row_pos + 1], field_metadata))
            /\ row_pos' = row_pos + 1
            /\ UNCHANGED <<imp_pc, imp_error>>
       ELSE /\ imp_pc' = "raised"
            /\ imp_error' = "KeyError"
            /\ UNCHANGED <<row_pos, data_to_send>>
    /\ UNCHANGED <<entry, df, metadata, field_metadata, validation_errors, df_clean>>

\* prepare_data_to_send returns data_to_send; handle_excel_upload goes on
\* with upload_to_vip, which calls update_objects(objects_data=data_to_send)
PrepareReturn ==
    /\ imp_pc = "rows"
    /\ row_pos = Len(df_clean)
    /\ IF entry = "components"
       THEN imp_pc' = "returned" /\ UNCHANGED updVars
       ELSE /\ imp_pc' = "upload"
            /\ objects_data' = data_to_send
            /\ batch_size' = DefaultBatchSize
            /\ max_retries' = DefaultMaxRetries
            /\ i' = 0
            /\ retry' = 0
            /\ response_json_list' = <<>>
            /\ upd_pc' = "called"
            /\ upd_error' = None
            /\ upd_result' = NoResult
            /\ trace' = <<>>
            /\ report' = NoReport
    /\ UNCHANGED <<entry, df, metadata, field_metadata, imp_error, validation_errors,
                   df_clean, row_pos, data_to_send>>

(***************************************************************************)
(* The value conversions: ExcelHandler.create_excel_file turns the values  *)
(* of an API object into cells (export); DataTypeMapper.convert_value and  *)
(* convert_cell_value turn a cell into an API value (import).  One object  *)
(* with one attribute is exported, or one row with one cell is imported;   *)
(* the cell is validated as well, and the conversions are applied whatever *)
(* the validator found.                                                    *)
(***************************************************************************)
VARIABLES origin, data, codec_meta, importer, excel_file, excel_row, cell_errors,
          new_value, codec_pc
codecVars ==
    <<origin, data, codec_meta, importer, excel_file, excel_row, cell_errors, new_value,
      codec_pc>>

\* the length of the token of a generated identifier, {8} in the pattern
TokenLength == 8
\* the longest text after the first seven characters of a token
MaxExtra == 2
\* [a-f0-9-]
TokenChars ==
    {"a", "b", "c", "d", "e", "f", "0", "1", "2", "3", "4", "5", "6", "7", "8", "9", "-"}
\* an identifier is a text: a prefix, a separator and a token of characters
IdentifierText(prefix, sep, token) ==
    [t |-> "str", prefix |-> prefix, sep |-> sep, token |-> token]
PlainIdentifier == IdentifierText("B1", "", <<>>)
\* the identifiers of the model: the object type or another prefix, an
\* underscore or a dash, seven characters (all of the class, or not) and at
\* most MaxExtra more characters, a line feed among them
Identifiers ==
    {PlainIdentifier} \cup
    {IdentifierText(p, sp, st \o ex) :
        p \in {ConfigObjectType, OtherObjectType, "xBuilding"}, sp \in {"_", "-"},
        st \in {<<"a", "1", "b", "2", "-", "c", "3">>, <<"a", "1", "g", "2", "-", "c", "3">>},
        ex \in UNION {[1..n -> {"f", "9", "-", "g", "A", "\n"}] : n \in 0..MaxExtra}}

\* re.match(f"^{object_type}_[a-f0-9-]{{8}}$", identifier): "$" matches at
\* the end of the text and before a line feed that ends the text
MatchesPattern(identifier, object_type) ==
    /\ identifier.prefix = object_type
    /\ identifier.sep = "_"
    /\ Len(identifier.token) >= TokenLength
    /\ \A k \in 1..TokenLength : identifier.token[k] \in TokenChars
    /\ SubSeq(identifier.token, TokenLength + 1, Len(identifier.token)) \in {<<>>, <<"\n">>}
\* the text is the pattern from its first to its last character
IsGenerated(identifier, object_type) ==
    /\ identifier.prefix = object_type
    /\ identifier.sep = "_"
    /\ Len(identifier.token) = TokenLength
    /\ \A k \in 1..TokenLength : identifier.token[k] \in TokenChars
\* mask = df['identifier'].str.match(pattern, na=False);
\* df.loc[mask, 'identifier'] = None
ScrubIdentifier(identifier) ==
    IF identifier.t = "str" /\ MatchesPattern(identifier, ConfigObjectType)
    THEN PyNone ELSE identifier

\* the metadata of the exported or imported field
YearAttributeName == ConfigAttributeNames[2]
FieldMeta(name, type, date_format) ==
    [known |-> TRUE, name |-> name, type |-> type, required |-> FALSE,
     dateFormat |-> date_format]
\* the metadata of the model: every type, a DATE with every dateFormat and
\* with none, and metadata that has the entry "dataFormat" the validator
\* looks for
CodecMetas ==
    {FieldMeta(AttributeName, ty, None) : ty \in {"STRING", "INT", "FLOAT", "BOOLEAN"}}
    \cup {FieldMeta(n, "DATE", f) :
            n \in {AttributeName, YearAttributeName},
            f \in {"yyyy", "dd-MM-yyyy", "yyyy-MM-dd", None}}
    \cup {[known |-> TRUE, name |-> YearAttributeName, type |-> "DATE",
           required |-> FALSE, dateFormat |-> "yyyy", dataFormat |-> "yyyy"]}

\* the values of the API of the model: null, a text that is no value of any
\* type, the empty text, the booleans, a year and the timestamps
ApiValues ==
    {PyNone, PyText(""), PyText("abc"), PyText("true"), PyText("false"), PyText("True")}
    \cup {PyText(ToString(y)) : y \in Years}
    \cup {PyText(IsoText(d)) : d \in Moments}
\* the cells of the model: blank, the empty text, a text, the booleans in
\* several spellings, a number and the years
Cells ==
    {NaN, PyNone, PyText(""), PyText("abc"), PyText("Ja"), PyText("Nee"), PyText("JA"),
     PyText("nee"), PyText("true"), PyInt("7")}
    \cup {PyText(ToString(y)) : y \in Years}
\* the cells of a field that is no DATE, besides: numbers with a fraction,
\* whole numbers written with a fraction, and the texts of infinity and NaN
NumberCells ==
    {PyText("7.0"), PyText("7.9"), PyText("7.50"), PyText("-7.9"), PyText("-7.0"),
     PyText("inf"), PyText("nan")}

\* what read_excel gives for a cell that create_excel_file wrote: None, NaN,
\* NaT and '' are written as an empty cell, which is read as NaN
WrittenCell(value) == IF IsNa(value) \/ value = PyText("") THEN NaN ELSE value

\* create_excel_file, a BOOLEAN column:
\* map({'true': 'Ja', 'false': 'Nee'}, na_action='ignore')
ExportBoolean(value) ==
    IF IsNa(value) THEN value
    ELSE IF value = PyText("true") THEN PyText("Ja")
    ELSE IF value = PyText("false") THEN PyText("Nee")
    ELSE NaN
\* create_excel_file, a DATE column with dateFormat 'yyyy': the year, and
\* the next year for the 31st of December at 23 hours; a value that is no
\* date gives 'nan', and every null and 'nan' is replaced by ''
IsEndOfYearOnTheHour(d) == d[2] = 12 /\ d[3] = 31 /\ d[4] = 23 /\ d[5] = 0 /\ d[6] = 0
IsEndOfYear(d) == d[2] = 12 /\ d[3] = 31 /\ d[4] = 23
ExportYear(value) ==
    LET d == ToDatetime(value)
    IN  IF IsNa(value) \/ d = NaT THEN PyText("")
        ELSE IF IsEndOfYear(d) THEN PyText(ToString(d[1] + 1))
        ELSE PyText(ToString(d[1]))
\* create_excel_file, a DATE column with another dateFormat: one hour is
\* added to a time of 23:00:00, and the date is written with '%d-%m-%Y'
ExportDate(value, date_format) ==
    LET d == ToDatetime(value)
    IN  IF IsNa(value) THEN value
        ELSE IF d = NaT THEN PyText("")
        ELSE IF StrfTime(d) = "23:00:00" THEN PyText(StrfDayFirst(PlusOneHour(d)))
        ELSE PyText(StrfDayFirst(d))
\* create_excel_file, one value of the column of the attribute
CreateExcelCell(value, meta) ==
    IF meta.type = "BOOLEAN" THEN ExportBoolean(value)
    ELSE IF meta.type = "DATE" /\ meta.dateFormat = "yyyy" THEN ExportYear(value)
    ELSE IF meta.type = "DATE" THEN ExportDate(value, meta.dateFormat)
    ELSE value

\* convert_cell_value (the column is not "WOZ waarde", and no cell is a
\* float): a year in a field of the last maintenance becomes the year or
\* the last day of the year, in the dateFormat of jaar_attribute
IsMaintenanceField(api_field) == api_field = YearAttributeName
\* the first attribute of the metadata that is a field of the last maintenance
JaarAttribute(meta) == IF IsMaintenanceField(meta.name) THEN meta ELSE NoMetadata
ConvertCellValue(api_field, value, jaar_attribute) ==
    IF IsMaintenanceField(api_field) /\ ~IsNa(value)
    THEN LET f == ParseFloat(value.v)
              year == ToString(IntOfFloat(f))
         IN  IF f.k # "num" THEN PyNone
             ELSE IF jaar_attribute.known /\ jaar_attribute.dateFormat = "yyyy"
                  THEN PyText(year)
             ELSE IF ~jaar_attribute.known
                        \/ jaar_attribute.dateFormat \in {None, "dd-MM-yyyy"}
                  THEN PyText("31-12-" \o year)
             ELSE PyText(year \o "-12-31")
    ELSE IF ~IsNa(value) THEN PyText(PyStr(value))
    ELSE PyNone

\* the two translations of a cell into an API value
Importers == {"DataTypeMapper.convert_value", "convert_cell_value"}
\* the translation raises an exception it does not catch
ToApiRaises(imp, value, meta) ==
    /\ imp = "DataTypeMapper.convert_value"
    /\ ~IsNa(value)
    /\ meta.type = "INT"
    /\ ConvertIntRaises(value)
ToApi(imp, value, meta) ==
    IF imp = "convert_cell_value"
    THEN ConvertCellValue(meta.name, value, JaarAttribute(meta))
    ELSE ConvertValue(value, meta)

NoRow == [identifier |-> PyNone, field |-> NoCell]
NoData == [identifier |-> PyNone, value |-> NoCell]

CodecIdle ==
    /\ origin = None
    /\ data = NoData
    /\ codec_meta = NoMetadata
    /\ importer = None
    /\ excel_file = NoRow
    /\ excel_row = NoRow
    /\ cell_errors = <<>>
    /\ new_value = NoCell
    /\ codec_pc = "idle"

\* create_excel_file(data): the identifier is scrubbed and the value of the
\* attribute is converted; the file of an exported object is uploaded again,
\* and its row is what read_excel gives for the file
CreateExcelFile ==
    /\ codec_pc = "export"
    /\ excel_file' = [identifier |-> ScrubIdentifier(data.identifier),
                      field |-> WrittenCell(CreateExcelCell(data.value, codec_meta))]
    /\ excel_row' = IF origin = "api" THEN excel_file' ELSE excel_row
    /\ codec_pc' = IF origin = "api" THEN "validate" ELSE "done"
    /\ UNCHANGED <<origin, data, codec_meta, importer, cell_errors, new_value>>

\* _validate_column_data on the sheet of one row that holds the cell
ValidateCellStep ==
    /\ codec_pc = "validate"
    /\ cell_errors' =
          ValidateCell([columns |-> {"objectType", "identifier", ExcelColumnName},
                        rows |-> <<[objectType |-> PyText(ConfigObjectType),
                                    identifier |-> PyText("B1"),
                                    field |-> excel_row.field]>>],
                       codec_meta, 1)
    /\ codec_pc' = "convert"
    /\ UNCHANGED <<origin, data, codec_meta, importer, excel_file, excel_row, new_value>>

\* prepare_data_to_send, one cell: the cell becomes the value of the
\* attribute of the object that is sent
ConvertCell ==
    /\ codec_pc = "convert"
    /\ ~ToApiRaises(importer, excel_row.field, codec_meta)
    /\ new_value' = ToApi(importer, excel_row.field, codec_meta)
    /\ data' = IF origin = "api" THEN data
               ELSE [identifier |-> excel_row.identifier, value |-> new_value']
    /\ codec_pc' = IF origin = "api" THEN "done" ELSE "export"
    /\ UNCHANGED <<origin, codec_meta, importer, excel_file, excel_row, cell_errors>>

\* prepare_data_to_send, one cell: the conversion raises; the exception
\* leaves prepare_data_to_send, and no object is returned
ConvertCellRaises ==
    /\ codec_pc = "convert"
    /\ ToApiRaises(importer, excel_row.field, codec_meta)
    /\ codec_pc' = "raised"
    /\ UNCHANGED <<origin, data, codec_meta, importer, excel_file, excel_row, cell_errors,
                   new_value>>

(***************************************************************************)
(* The layout of the exported table and the metadata map of a              *)
(* configuration of several attributes: ExcelHandler.create_excel_file on  *)
(* a list of API objects, build_metadata_map on the attributes of the      *)
(* object type.                                                            *)
(***************************************************************************)
VARIABLES config_attributes, ot_attributes, api_data, meta_map, table, layout_pc

layoutVars == <<config_attributes, ot_attributes, api_data, meta_map, table, layout_pc>>

\* a field of the API objects that the configuration does not name
UnconfiguredField == "Oppervlakte"

\* self.required_columns = ["objectType", "identifier"] + list(columns_mapping.values())
RequiredColumns(config) ==
    <<"objectType", "identifier">> \o [k \in DOMAIN config |-> config[k].AttributeName]

\* self.inverse_mapping.get(c): {v: k for k, v in columns_mapping.items()}
InverseMapping(config, c) ==
    LET named == {k \in DOMAIN config : config[k].AttributeName = c}
    IN  IF named = {} THEN None
        ELSE config[CHOOSE k \in named : \A j \in named : j <= k].excelColumnName

\* the columns of df once the attributes are its columns: objectType,
\* identifier and every key of the attributes of any object
DfColumns(objects) ==
    {"objectType", "identifier"} \cup UNION {objects[n].attributes : n \in DOMAIN objects}

\* for rc in self.required_columns: if rc not in df.columns: df[rc] = None
WithoutRequiredColumns(columns, required) == columns
WithRequiredColumns(columns, required) ==
    columns \cup {required[k] : k \in DOMAIN required}

\* create_excel_file(data): the columns that are used, in the order of
\* required_columns, under their Excel names, and a row for every object
CreateExcelTable(objects, config) ==
    LET required == RequiredColumns(config)
        columns == WithRequiredColumns(DfColumns(objects), required)
        InColumns(c) == c \in columns
        columns_to_use == SelectSeq(required, InColumns)
        Header(c) ==
            IF c \in {"objectType", "identifier"} \/ InverseMapping(config, c) = None
            THEN c ELSE InverseMapping(config, c)
        Value(o, c) ==
            IF c = "objectType" THEN PyText(ConfigObjectType)
            ELSE IF c = "identifier"
                 THEN (IF o.identifier = NoCell THEN PyNone ELSE o.identifier)
            ELSE IF c \in o.attributes THEN PyText(c)
            ELSE IF c \in DfColumns(objects) THEN NaN ELSE PyNone
    IN  [columns |-> [k \in DOMAIN columns_to_use |-> Header(columns_to_use[k])],
         rows |-> [n \in DOMAIN objects |->
                     [k \in DOMAIN columns_to_use |-> Value(objects[n], columns_to_use[k])]]]

\* map_config_attributes_to_metadata(config_attributes, attribute_mapping):
\* meta_map[attr_name] = attribute_mapping.get(attr_name, {})
MapConfigAttributesToMetadata(config, attributes) ==
    [a \in {config[k].AttributeName : k \in DOMAIN config} |->
        MapConfigAttribute(attributes, a)]

LayoutIdle ==
    /\ config_attributes = <<>>
    /\ ot_attributes = <<>>
    /\ api_data = <<>>
    /\ meta_map = <<>>
    /\ table = [columns |-> <<>>, rows |-> <<>>]
    /\ layout_pc = "idle"

\* create_excel_file(data) on a list with an object
ExportTable ==
    /\ layout_pc = "export"
    /\ api_data # <<>>
    /\ table' = CreateExcelTable(api_data, config_attributes)
    /\ layout_pc' = "exported"
    /\ UNCHANGED <<config_attributes, ot_attributes, api_data, meta_map>>

\* if not data: raise ValueError("Geen data om te exporteren")
ExportNoData ==
    /\ layout_pc = "export"
    /\ api_data = <<>>
    /\ layout_pc' = "raised"
    /\ UNCHANGED <<config_attributes, ot_attributes, api_data, meta_map, table>>

\* build_metadata_map(metadata, config), the object type being found
BuildConfigMetadataMap ==
    /\ layout_pc = "metadata"
    /\ meta_map' = MapConfigAttributesToMetadata(config_attributes, ot_attributes)
    /\ layout_pc' = "mapped"
    /\ UNCHANGED <<config_attributes, ot_attributes, api_data, table>>

vars == <<updVars, fetchVars, impVars, codecVars, layoutVars>>

UpdIdle ==
    /\ objects_data = <<>>
    /\ batch_size = DefaultBatchSize
    /\ max_retries = DefaultMaxRetries
    /\ i = 0
    /\ retry = 0
    /\ response_json_list = <<>>
    /\ upd_pc = "idle"
    /\ upd_error = None
    /\ upd_result = NoResult
    /\ trace = <<>>
    /\ report = NoReport

(***************************************************************************)
(* The upload on its own: update_objects called with any list of at most   *)
(* MaxObjects objects, any batch_size >= 1 and any max_retries >= 1 (with  *)
(* batch_size = 0 range() raises, with max_retries = 0 nothing is sent).   *)
(***************************************************************************)
Init ==
    /\ \E n \in 0..MaxObjects, bs \in 1..MaxBatchSize, mr \in 1..MaxRetries :
          UpdateObjectsCall([k \in 1..n |-> k], bs, mr)
    /\ FetchIdle
    /\ ImpIdle
    /\ CodecIdle
    /\ LayoutIdle

Next ==
    \/ UpdateObjectsEnter /\ UNCHANGED <<fetchVars, impVars, codecVars, layoutVars>>
    \/ PutSuccess /\ UNCHANGED <<fetchVars, impVars, codecVars, layoutVars>>
    \/ PutTransientFailure /\ UNCHANGED <<fetchVars, impVars, codecVars, layoutVars>>
    \/ PutRequestFailure /\ UNCHANGED <<fetchVars, impVars, codecVars, layoutVars>>
    \/ UploadReport /\ UNCHANGED <<fetchVars, impVars, codecVars, layoutVars>>
    \/ UploadError /\ UNCHANGED <<fetchVars, impVars, codecVars, layoutVars>>

Spec == Init /\ [][Next]_vars

\* the upload when every request returns or times out and the program is
\* not stopped: a step that can be taken is taken
SpecTermination == Init /\ [][Next]_vars /\ WF_vars(Next)

(***************************************************************************)
(* The download on its own: a dataset is fetched by one of the callers     *)
(* from an API that holds at most MaxStored matching objects.              *)
(***************************************************************************)
FetchInit ==
    /\ UpdIdle
    /\ ImpIdle
    /\ CodecIdle
    /\ LayoutIdle
    /\ caller \in {"api", "ExcelDownloader", "DatasetDownloader"}
    /\ complex_selectie \in
          IF caller = "DatasetDownloader"
          THEN {<<>>} \cup {<<c>> : c \in Complexes}
                      \cup {s \in Complexes \X Complexes : s[1] # s[2]}
          ELSE {<<>>}
    /\ complex_pos = 0
    /\ all_dataset_data = <<>>
    /\ dl_pc = "start"
    /\ call = NoCall
    /\ page_size = DefaultPageSize
    /\ current_page = 0
    /\ all_objects = <<>>
    /\ requests = <<>>
    /\ fetch_pc = "idle"
    /\ fetch_error = None
    /\ fetch_result = NoFetchResult
    /\ server_count \in 0..MaxStored
    /\ server_cap \in 1..(MaxPageSize + 1) \cup {DefaultPageSize}

FetchNext ==
    \/ GetAllObjectsCall /\ UNCHANGED <<updVars, impVars, codecVars, layoutVars>>
    \/ GetObjectsPage /\ UNCHANGED <<updVars, impVars, codecVars, layoutVars>>
    \/ GetObjectsHttpError /\ UNCHANGED <<updVars, impVars, codecVars, layoutVars>>
    \/ CollectObjects /\ UNCHANGED <<updVars, impVars, codecVars, layoutVars>>
    \/ FetchFailed /\ UNCHANGED <<updVars, impVars, codecVars, layoutVars>>

SpecFetch == FetchInit /\ [][FetchNext]_vars

(***************************************************************************)
(* The import of a sheet: handle_excel_upload on an uploaded sheet.         *)
(***************************************************************************)
ImportInit ==
    /\ UpdIdle
    /\ FetchIdle
    /\ CodecIdle
    /\ LayoutIdle
    /\ entry = "handle_excel_upload"
    /\ df \in Sheets
    /\ metadata \in Metadatas
    /\ field_metadata = NoMetadata
    /\ imp_pc = "uploaded"
    /\ imp_error = None
    /\ validation_errors = <<>>
    /\ df_clean = <<>>
    /\ row_pos = 0
    /\ data_to_send = <<>>

ImportNext ==
    \/ GetMetadata /\ UNCHANGED <<updVars, fetchVars, codecVars, layoutVars>>
    \/ GetMetadataFails /\ UNCHANGED <<updVars, fetchVars, codecVars, layoutVars>>
    \/ BuildMetadataMapStep /\ UNCHANGED <<updVars, fetchVars, codecVars, layoutVars>>
    \/ ValidateExcelStep /\ UNCHANGED <<updVars, fetchVars, codecVars, layoutVars>>
    \/ PressUpload /\ UNCHANGED <<updVars, fetchVars, codecVars, layoutVars>>
    \/ PrepareDataToSend /\ UNCHANGED <<updVars, fetchVars, codecVars, layoutVars>>
    \/ TranslateRow /\ UNCHANGED <<updVars, fetchVars, codecVars, layoutVars>>
    \/ PrepareReturn /\ UNCHANGED <<fetchVars, codecVars, layoutVars>>
    \/ UpdateObjectsEnter /\ UNCHANGED <<fetchVars, impVars, codecVars, layoutVars>>
    \/ PutSuccess /\ UNCHANGED <<fetchVars, impVars, codecVars, layoutVars>>
    \/ PutTransientFailure /\ UNCHANGED <<fetchVars, impVars, codecVars, layoutVars>>
    \/ PutRequestFailure /\ UNCHANGED <<fetchVars, impVars, codecVars, layoutVars>>
    \/ UploadReport /\ UNCHANGED <<fetchVars, impVars, codecVars, layoutVars>>
    \/ UploadError /\ UNCHANGED <<fetchVars, impVars, codecVars, layoutVars>>

SpecImport == ImportInit /\ [][ImportNext]_vars

(***************************************************************************)
(* The components of the import on their own: build_metadata_map, the      *)
(* validator and prepare_data_to_send, each applied to the sheet whatever  *)
(* the one before it reported.                                             *)
(***************************************************************************)
ComponentsInit ==
    /\ UpdIdle
    /\ FetchIdle
    /\ CodecIdle
    /\ LayoutIdle
    /\ entry = "components"
    /\ df \in Sheets
    /\ metadata \in Metadatas
    /\ field_metadata = NoMetadata
    /\ imp_pc = "metadata"
    /\ imp_error = None
    /\ validation_errors = <<>>
    /\ df_clean = <<>>
    /\ row_pos = 0
    /\ data_to_send = <<>>

ComponentsNext ==
    \/ BuildMetadataMapStep /\ UNCHANGED <<updVars, fetchVars, codecVars, layoutVars>>
    \/ ValidateExcelStep /\ UNCHANGED <<updVars, fetchVars, codecVars, layoutVars>>
    \/ PrepareDataToSend /\ UNCHANGED <<updVars, fetchVars, codecVars, layoutVars>>
    \/ TranslateRow /\ UNCHANGED <<updVars, fetchVars, codecVars, layoutVars>>
    \/ PrepareReturn /\ UNCHANGED <<fetchVars, codecVars, layoutVars>>

SpecComponents == ComponentsInit /\ [][ComponentsNext]_vars

(***************************************************************************)
(* The value conversions on their own: an API object is exported and the   *)
(* cell imported again, or a cell is imported and the value exported       *)
(* again.  Either the identifier of the object varies, or its value and    *)
(* the metadata of its field do.                                           *)
(***************************************************************************)
CodecInit ==
    /\ UpdIdle
    /\ FetchIdle
    /\ ImpIdle
    /\ LayoutIdle
    /\ origin \in {"api", "sheet"}
    /\ codec_meta \in CodecMetas
    /\ importer \in Importers
    /\ data \in
          IF origin = "sheet" THEN {NoData}
          ELSE {[identifier |-> PlainIdentifier, value |-> v] : v \in ApiValues}
               \cup (IF codec_meta.type = "BOOLEAN" /\ importer = "convert_cell_value"
                     THEN {[identifier |-> id, value |-> PyText("true")] : id \in Identifiers}
                     ELSE {})
    /\ excel_file = NoRow
    /\ excel_row \in
          IF origin = "api" THEN {NoRow}
          ELSE {[identifier |-> PlainIdentifier, field |-> c] :
                  c \in Cells \cup (IF codec_meta.type = "DATE" THEN {} ELSE NumberCells)}
    /\ cell_errors = <<>>
    /\ new_value = NoCell
    /\ codec_pc = IF origin = "api" THEN "export" ELSE "validate"

CodecNext ==
    \/ CreateExcelFile /\ UNCHANGED <<updVars, fetchVars, impVars, layoutVars>>
    \/ ValidateCellStep /\ UNCHANGED <<updVars, fetchVars, impVars, layoutVars>>
    \/ ConvertCell /\ UNCHANGED <<updVars, fetchVars, impVars, layoutVars>>
    \/ ConvertCellRaises /\ UNCHANGED <<updVars, fetchVars, impVars, layoutVars>>

SpecCodec == CodecInit /\ [][CodecNext]_vars

(***************************************************************************)
(* The layout on its own: a list of API objects is exported under a        *)
(* configuration, or the metadata map of a configuration is built from     *)
(* the attributes of its object type.                                      *)
(***************************************************************************)
LayoutInit ==
    \* config["attributes"]: each attribute has its AttributeName and its
    \* excelColumnName; a configuration names no attribute and no column
    \* twice.  The API objects are with or without an identifier and have
    \* any of the configured attributes and of the one that is not
    \* configured.  The object type has at most two attributes, which may
    \* share their name or their simple name.
    LET names == DOMAIN ConfigAttributeNames
        excel_column_names == <<ExcelColumnName, "Dakonderhoud jaar">>
        attribute(k) ==
            [AttributeName |-> ConfigAttributeNames[k],
             excelColumnName |-> excel_column_names[k]]
        configs ==
            {<<>>} \cup {<<attribute(k)>> : k \in names}
                   \cup {<<attribute(p[1]), attribute(p[2])>> :
                            p \in {q \in names \X names : q[1] # q[2]}}
        objects ==
            [identifier : {PyText("B1"), NoCell},
             attributes : SUBSET ({ConfigAttributeNames[k] : k \in names}
                                  \cup {UnconfiguredField})]
        descriptors ==
            { [known |-> TRUE, name |-> nm, type |-> ty, required |-> FALSE] :
                nm \in {AttributeName, SuffixedName, ConfigAttributeNames[2]},
                ty \in {"STRING", "BOOLEAN"} }
    IN  /\ UpdIdle
        /\ FetchIdle
        /\ ImpIdle
        /\ CodecIdle
        /\ layout_pc \in {"export", "metadata"}
        /\ config_attributes \in configs
        /\ api_data \in
              IF layout_pc = "export"
              THEN UNION {[1..n -> objects] : n \in 0..MaxRows} ELSE {<<>>}
        /\ ot_attributes \in
              IF layout_pc = "metadata"
              THEN {<<>>} \cup {<<a>> : a \in descriptors} \cup (descriptors \X descriptors)
              ELSE {<<>>}
        /\ meta_map = <<>>
        /\ table = [columns |-> <<>>, rows |-> <<>>]

LayoutNext ==
    \/ ExportTable /\ UNCHANGED <<updVars, fetchVars, impVars, codecVars>>
    \/ ExportNoData /\ UNCHANGED <<updVars, fetchVars, impVars, codecVars>>
    \/ BuildConfigMetadataMap /\ UNCHANGED <<updVars, fetchVars, impVars, codecVars>>

SpecLayout == LayoutInit /\ [][LayoutNext]_vars

(***************************************************************************)
(* Properties of the upload.                                               *)
(***************************************************************************)
RECURSIVE SelectResult(_, _)
\* the events of a trace with the given result, in trace order
SelectResult(tr, res) ==
    IF tr = <<>> THEN <<>>
    ELSE IF Head(tr).result = res THEN <<Head(tr)>> \o SelectResult(Tail(tr), res)
         ELSE SelectResult(Tail(tr), res)

Puts == SelectEvents(trace, "put")
OkPuts == SelectResult(trace, "ok")
PutPhase == PutSuccess \/ PutTransientFailure \/ PutRequestFailure

\* the positions in the trace of the PUTs, and of the sleeps, of batch b
PutsOfBatch(b) == {q \in DOMAIN trace : trace[q].op = "put" /\ trace[q].batch = b}
SleepsOfBatch(b) == {q \in DOMAIN trace : trace[q].op = "sleep" /\ trace[q].batch = b}

\* C1: a PUT that fails with a timeout or a connection failure on an attempt
\* k < max_retries is followed by a sleep of 5 * k seconds and then by
\* attempt k + 1 of the same batch with the same payload; nothing else sleeps
\* (no wait after a success); a batch that succeeds on attempt a has had
\* exactly a attempts and the sleeps 5, 10, ..., 5 * (a - 1) (3 attempts and
\* 5 s, 10 s when it fails twice and succeeds on the third), and the
\* accumulated results are the responses of the successful PUTs in order,
\* whatever number of attempts each of them took
C1_RetryBackoff ==
    /\ \A p \in DOMAIN trace :
        LET e == trace[p] IN
        /\ (e.op = "put" /\ e.result = "transient" /\ e.attempt < max_retries) =>
              /\ p + 1 <= Len(trace)
              /\ trace[p + 1].op = "sleep"
              /\ trace[p + 1].secs = 5 * e.attempt
              /\ p + 2 <= Len(trace) =>
                    /\ trace[p + 2].op = "put"
                    /\ trace[p + 2].batch = e.batch
                    /\ trace[p + 2].attempt = e.attempt + 1
                    /\ trace[p + 2].payload = e.payload
        /\ e.op = "sleep" =>
              /\ p > 1
              /\ trace[p - 1].op = "put"
              /\ trace[p - 1].result = "transient"
        /\ (e.op = "put" /\ e.result = "ok") =>
              /\ Cardinality(PutsOfBatch(e.batch)) = e.attempt
              /\ LET sl == SleepsOfBatch(e.batch)
                 IN  /\ Cardinality(sl) = e.attempt - 1
                     /\ {trace[q].secs : q \in sl} = {5 * k : k \in 1..(e.attempt - 1)}
    /\ LET oks == OkPuts
       IN  response_json_list = Concat([k \in 1..Len(oks) |-> oks[k].resp.items])

\* a batch failed on attempts 1 and 2 and succeeded on attempt 3 under
\* max_retries = 3, and update_objects returned
C1_Witness ==
    /\ upd_result.returned
    /\ max_retries = 3
    /\ \E p \in DOMAIN trace :
          /\ p + 4 <= Len(trace)
          /\ trace[p].op = "put" /\ trace[p].attempt = 1 /\ trace[p].result = "transient"
          /\ trace[p + 1].op = "sleep" /\ trace[p + 1].secs = 5
          /\ trace[p + 2].op = "put" /\ trace[p + 2].result = "transient"
          /\ trace[p + 3].op = "sleep" /\ trace[p + 3].secs = 10
          /\ trace[p + 4].op = "put" /\ trace[p + 4].attempt = 3
          /\ trace[p + 4].result = "ok"

\* C2: no batch is attempted more than max_retries times; a transient
\* failure on attempt max_retries ends update_objects with that error, and
\* then the failing batch has had exactly max_retries attempts, all of them
\* transient failures, nothing was returned (the accumulated results stay
\* inside), no report is shown, no later batch was sent and none can be
TransientRaised == upd_error \in TransientErrors

C2_RetryExhaustion ==
    /\ \A p \in DOMAIN trace :
          /\ trace[p].op = "put" => trace[p].attempt <= max_retries
          /\ (trace[p].result = "transient" /\ trace[p].attempt = max_retries) =>
                p = Len(trace) /\ TransientRaised
    /\ TransientRaised =>
          /\ trace # <<>>
          /\ LET last == trace[Len(trace)] IN
             /\ upd_pc \in {"raised", "done"}
             /\ last.op = "put"
             /\ last.result = "transient"
             /\ last.attempt = max_retries
             /\ Cardinality(PutsOfBatch(last.batch)) = max_retries
             /\ \A q \in PutsOfBatch(last.batch) : trace[q].result = "transient"
             /\ \A p \in DOMAIN trace : trace[p].batch <= last.batch
          /\ upd_result = NoResult
          /\ report.shown # "report"
          /\ ~ENABLED PutPhase

\* retries were exhausted on a batch that has batches after it, with results
\* of earlier batches accumulated
C2_Witness ==
    /\ upd_pc = "raised"
    /\ TransientRaised
    /\ max_retries >= 2
    /\ response_json_list # <<>>
    /\ i + batch_size < Len(objects_data)

C4_BatchPartition ==
    LET n == Len(objects_data)
        puts == Puts
        oks == OkPuts
        tried == oks \o (IF puts # <<>> /\ puts[Len(puts)].result # "ok"
                         THEN <<puts[Len(puts)]>> ELSE <<>>)
        sent == Concat([k \in 1..Len(tried) |-> tried[k].payload])
    IN  /\ \A k \in 1..Len(puts) :
              /\ Len(puts[k].payload) \in 1..batch_size
              /\ puts[k].batch \in 1..CeilDiv(n, batch_size)
              /\ puts[k].attempt > 1 => puts[k].payload = puts[k - 1].payload
              /\ Len(puts[k].payload) < batch_size =>
                    puts[k].payload[Len(puts[k].payload)] = objects_data[n]
        /\ Len(sent) <= n
        /\ sent = SubSeq(objects_data, 1, Len(sent))
        /\ upd_result.returned =>
              /\ Len(oks) = CeilDiv(n, batch_size)
              /\ sent = objects_data

\* three objects in batches of two: a full batch and a short last batch,
\* one of them retried
C4_Witness ==
    /\ upd_result.returned
    /\ Len(objects_data) = 3
    /\ batch_size = 2
    /\ Len(Puts) > Len(OkPuts)

\* C8: the objects update_objects returns are the responses of the
\* successful PUTs in batch order, a list response with all its elements and
\* a single object as one element, totalCount is their number, and the
\* report counts every one of them once, as a success or as a failure
C8_ReportAggregation ==
    /\ upd_result.returned =>
          /\ LET oks == OkPuts
             IN  upd_result.objects = Concat([k \in 1..Len(oks) |-> oks[k].resp.items])
          /\ upd_result.totalCount = Len(upd_result.objects)
    /\ report.shown = "report" =>
          /\ report.total = upd_result.totalCount
          /\ report.ok + report.failed = report.total
          /\ report.ok = Cardinality({k \in DOMAIN upd_result.objects :
                                         upd_result.objects[k].success = "True"})

\* a report over a list response and a single-object response, with a
\* success, a failure and a result without a success flag
C8_Witness ==
    LET oks == OkPuts
    IN  /\ report.shown = "report"
        /\ \E k \in 1..Len(oks) : oks[k].resp.isList /\ Len(oks[k].resp.items) = 2
        /\ \E k \in 1..Len(oks) : ~oks[k].resp.isList
        /\ \E k \in DOMAIN upd_result.objects : upd_result.objects[k].success = None
        /\ report.ok = 1
        /\ report.failed = 2

(***************************************************************************)
(* Properties of the paginated download.                                   *)
(***************************************************************************)
\* the page requests that were answered (raise_for_status did not raise)
Answered(k) == requests[k].form # "error"
RECURSIVE PagesUpTo(_)
PagesUpTo(k) ==
    IF k = 0 THEN <<>>
    ELSE PagesUpTo(k - 1) \o (IF Answered(k) THEN requests[k].objects ELSE <<>>)

ServesPageSize == server_cap >= call.page_size

FilteredFetchEnded ==
    /\ "filter_params" \in call.keywords
    /\ fetch_pc \in {"returned", "raised"}

\* C7 (as the specification states it): a fetch that is given filterParams
\* requests its pages, and every page request of the fetch carries the
\* filterParams unchanged.
C7_FilterPassThrough ==
    FilteredFetchEnded =>
        /\ requests # <<>>
        /\ \A k \in DOMAIN requests :
              requests[k].filter_params = call.filter_params

(***************************************************************************)
(* Properties of the import flow.                                          *)
(***************************************************************************)
\* the translator has been entered or the upload has been called
TranslationOrUploadBegun ==
    \/ imp_pc \in {"prepare", "rows", "upload"}
    \/ imp_error \in {"ValueError", "KeyError"}
    \/ row_pos > 0
    \/ data_to_send # <<>>
    \/ upd_pc # "idle"
    \/ trace # <<>>

\* validate_excel has run on the sheet
ValidationDone ==
    /\ imp_pc \notin {"uploaded", "metadata", "read", "ended"}
    /\ ~(imp_pc = "raised" /\ imp_error \in MetadataErrors)

\* C9: in handle_excel_upload no row is translated and no upload request is
\* sent unless validate_excel has returned an empty list for the sheet; a
\* sheet with any validation error ends at the list of its errors.
C9_ValidationGatesUpload ==
    entry = "handle_excel_upload" =>
        /\ TranslationOrUploadBegun =>
              /\ validation_errors = <<>>
              /\ ValidateExcel(df, field_metadata) = <<>>
        /\ (ValidationDone
               /\ ValidateExcel(df, field_metadata) # <<>>) =>
              /\ imp_pc = "blocked"
              /\ validation_errors = ValidateExcel(df, field_metadata)
              /\ ~TranslationOrUploadBegun

\* a validated sheet of two rows has been translated and a PUT was sent
C9_Witness ==
    /\ entry = "handle_excel_upload"
    /\ validation_errors = <<>>
    /\ Len(data_to_send) = 2
    /\ Len(trace) >= 1
    /\ trace[1].op = "put"
    /\ trace[1].payload = data_to_send

\* the sheet with an identifier column added, filled in every row
WithIdentifier(sheet) ==
    [columns |-> sheet.columns \cup {"identifier"},
     rows |-> [k \in DOMAIN sheet.rows |->
                  [sheet.rows[k] EXCEPT !.identifier = PyText("B1")]]]

\* the sheet lacks the identifier column and has no other fault
LacksOnlyIdentifier ==
    /\ "identifier" \notin df.columns
    /\ ValidateExcel(WithIdentifier(df), field_metadata) = <<>>

\* C10: validating a sheet that lacks the identifier column and is valid
\* otherwise gives exactly one error, row "N/A", column "identifier",
\* "Verplichte systeemkolom ontbreekt"; and prepare_data_to_send, given a
\* sheet without identifier column, raises ValueError before it translates a
\* row: it never holds or returns a list of objects.
C10_MissingIdentifierColumn ==
    /\ (LacksOnlyIdentifier /\ ValidationDone) =>
          /\ Len(validation_errors) = 1
          /\ validation_errors[1].row = "N/A"
          /\ validation_errors[1].column = "identifier"
          /\ validation_errors[1].error = "Verplichte systeemkolom ontbreekt"
    /\ "identifier" \notin df.columns =>
          /\ imp_pc \notin {"rows", "returned", "upload"}
          /\ row_pos = 0
          /\ data_to_send = <<>>
          /\ (imp_pc = "raised" /\ imp_error \notin MetadataErrors) =>
                imp_error = "ValueError"

\* a sheet of two rows without identifier column: the validator has given
\* the one error and the translator has raised
C10_Witness ==
    /\ LacksOnlyIdentifier
    /\ Len(df.rows) = 2
    /\ Len(validation_errors) = 1
    /\ validation_errors[1].column = "identifier"
    /\ imp_pc = "raised"
    /\ imp_error = "ValueError"
    /\ data_to_send = <<>>

\* no object type of the metadata has the name of the configuration
ObjectTypeMissing ==
    \A k \in DOMAIN metadata.objectTypes : metadata.objectTypes[k].name # ConfigObjectType

\* build_metadata_map has been called, or the flow ended before the call
MetadataMapDone == imp_pc \notin {"uploaded", "metadata", "ended"}

\* C11: build_metadata_map fails (ValueError) whenever no object type of the
\* metadata has the name config.objectType, and only then; in an import the
\* failure comes before the sheet is validated, translated or uploaded: no
\* PUT is ever sent.
C11_MissingObjectTypeFatal ==
    /\ (MetadataMapDone /\ ObjectTypeMissing) =>
          /\ imp_pc = "raised"
          /\ imp_error \in MetadataErrors
          /\ entry = "components" => imp_error = ObjectTypeNotFound
          /\ metadata.objectTypes # <<>> => imp_error = ObjectTypeNotFound
          /\ validation_errors = <<>>
          /\ ~TranslationOrUploadBegun
    /\ (MetadataMapDone /\ ~ObjectTypeMissing) => imp_error \notin MetadataErrors
    /\ ObjectTypeMissing => upd_pc = "idle" /\ trace = <<>>

\* an import of a sheet with rows ended at the ValueError of
\* build_metadata_map: the metadata has another object type only
C11_Witness ==
    /\ entry = "handle_excel_upload"
    /\ ObjectTypeMissing
    /\ metadata.objectTypes # <<>>
    /\ Len(df.rows) >= 1
    /\ imp_pc = "raised"
    /\ imp_error = ObjectTypeNotFound
    /\ trace = <<>>

(***************************************************************************)
(* Properties of the value conversions.                                    *)
(***************************************************************************)
\* the object has been exported; the cell has been translated
Exported == origin = "api" /\ codec_pc \in {"validate", "convert", "done"}
Imported == origin = "sheet" /\ codec_pc \in {"export", "done"}

\* C12: on export, an identifier that is, from its first to its last
\* character, the object type, an underscore and exactly 8 characters of
\* [a-f0-9-] is exported as blank, and every other identifier is exported
\* as it is
C12_IdentifierScrubbing ==
    Exported =>
        IF IsGenerated(data.identifier, ConfigObjectType)
        THEN excel_file.identifier = PyNone
        ELSE excel_file.identifier = data.identifier

\* the exported field has dateFormat yyyy and its value is a timestamp
YearExported ==
    /\ Exported
    /\ codec_meta.type = "DATE" /\ codec_meta.dateFormat = "yyyy"
    /\ IsIsoText(data.value.v)

YearImported ==
    /\ origin = "sheet"
    /\ codec_meta.type = "DATE" /\ codec_meta.dateFormat = "yyyy"
    /\ excel_row.field.t = "str"
    /\ \E y \in Years \cap (MinYear..MaxYear) : excel_row.field.v = ToString(y)

BooleanCell(b) == IF b = PyText("true") THEN PyText("Ja") ELSE PyText("Nee")
BooleanValue(c) == IF c = PyText("Ja") THEN PyText("true") ELSE PyText("false")

\* C15: for a BOOLEAN field the API values "true" and "false" are exported
\* as the cells "Ja" and "Nee", the cells "Ja" and "Nee" are imported as the
\* API values "true" and "false", and so importing the exported cell of a
\* boolean gives the boolean again
C15_BooleanRoundTrip ==
    codec_meta.type = "BOOLEAN" =>
        /\ (Exported /\ data.value \in {PyText("true"), PyText("false")}) =>
              /\ excel_file.field = BooleanCell(data.value)
              /\ codec_pc = "done" => new_value = data.value
        /\ (Imported /\ excel_row.field \in {PyText("Ja"), PyText("Nee")}) =>
              new_value = BooleanValue(excel_row.field)

\* the cell of a BOOLEAN field has been validated; it is not blank
BooleanValidated ==
    /\ origin = "sheet"
    /\ codec_meta.type = "BOOLEAN"
    /\ codec_pc \in {"convert", "export", "done"}
    /\ ~IsNa(excel_row.field)
\* "ja" or "nee" in any case, among the cells of the model
SpelledJaNee(c) == c.t = "str" /\ c.v \in {"Ja", "Nee", "JA", "nee"}

\* C16: for a BOOLEAN field the validator accepts a cell that is not blank
\* only if it is "ja" or "nee" in any case, and reports one type error for
\* every other one; such a cell is imported as its own text, and an API
\* value other than "true" and "false" is exported as neither "Ja" nor
\* "Nee": no other value is turned into a boolean
C16_BooleanValidation ==
    /\ BooleanValidated =>
          /\ cell_errors = <<>> <=> SpelledJaNee(excel_row.field)
          /\ ~SpelledJaNee(excel_row.field) =>
                /\ Len(cell_errors) = 1
                /\ cell_errors[1].error = "Waarde moet Ja, Nee of leeg zijn"
                /\ cell_errors[1].found = PyStr(excel_row.field)
                /\ codec_pc \in {"export", "done"} =>
                      new_value = PyText(PyStr(excel_row.field))
    /\ (Exported /\ codec_meta.type = "BOOLEAN"
          /\ data.value \notin {PyText("true"), PyText("false")}) =>
          excel_file.field \notin {PyText("Ja"), PyText("Nee")}

\* the cell "abc" has been rejected, and imported as "abc"
C16_Witness ==
    /\ BooleanValidated
    /\ codec_pc = "done"
    /\ excel_row.field = PyText("abc")
    /\ Len(cell_errors) = 1
    /\ new_value = PyText("abc")

\* C17: for a field whose metadata has the dateFormat "yyyy", the validator
\* reports an error for every cell that is not blank, unless the cell is an
\* integer from 1900 to 2100
C17_YearFormatValidation ==
    (/\ origin = "sheet"
     /\ codec_meta.dateFormat = "yyyy"
     /\ codec_pc \in {"convert", "export", "done"}
     /\ ~IsNa(excel_row.field)
     /\ cell_errors = <<>>)
        => \E y \in MinYear..MaxYear : excel_row.field.v = ToString(y)

\* the date in the pattern of a dateFormat
InPattern(d, date_format) ==
    IF date_format = "dd-MM-yyyy" THEN StrfDayFirst(d) ELSE StrfYearFirst(d)

\* C18: for a DATE field with dateFormat dd-MM-yyyy or yyyy-MM-dd the
\* exported cell is the date of the API timestamp in the pattern of that
\* dateFormat, the date being the one an hour later (the next day) when the
\* time of the timestamp is exactly 23:00:00
C18_DateExportPattern ==
    (/\ Exported
     /\ codec_meta.type = "DATE"
     /\ codec_meta.dateFormat \in {"dd-MM-yyyy", "yyyy-MM-dd"}
     /\ IsIsoText(data.value.v))
        => \E d \in Moments :
              /\ IsoText(d) = data.value.v
              /\ excel_file.field =
                    PyText(InPattern(IF <<d[4], d[5], d[6]>> = <<23, 0, 0>>
                                     THEN PlusOneHour(d) ELSE d,
                                     codec_meta.dateFormat))

\* C19: when the cell of a DATE field with dateFormat dd-MM-yyyy or
\* yyyy-MM-dd holds only a year Y, the API value is the last day of that
\* year: "31-12-Y" for dd-MM-yyyy and "Y-12-31" for yyyy-MM-dd
C19_YearOnlyImport ==
    (/\ Imported
     /\ codec_meta.type = "DATE"
     /\ codec_meta.dateFormat \in {"dd-MM-yyyy", "yyyy-MM-dd"}
     /\ excel_row.field.t = "str" /\ IsYearText(excel_row.field.v))
        => new_value =
              PyText(IF codec_meta.dateFormat = "dd-MM-yyyy"
                     THEN "31-12-" \o excel_row.field.v
                     ELSE excel_row.field.v \o "-12-31")

\* C20: for every field type, a cell that is no value (absent, NaN or the
\* empty text) is imported as null, and an API value that is no value (null
\* or the empty text) is exported as an empty cell
C20_NullPropagation ==
    /\ (Imported /\ excel_row.field \in {NaN, PyNone, PyText("")}) => new_value = PyNone
    /\ (Exported /\ data.value \in {NaN, PyNone, PyText("")}) => excel_file.field = NaN

\* the cell of an INT field has been handed to DataTypeMapper.convert_value
IntTranslated ==
    /\ origin = "sheet"
    /\ importer = "DataTypeMapper.convert_value"
    /\ codec_meta.type = "INT"
    /\ codec_pc \in {"export", "done", "raised"}
    /\ ~IsNa(excel_row.field)

\* C21: for an INT field a cell that is a number is imported as the integer
\* that is left when its fraction is dropped (7 for "7.9", -7 for "-7.9"),
\* a cell that is no number is imported as null, and the translation is not
\* aborted
C21_IntConversion ==
    IntTranslated =>
        /\ codec_pc # "raised"
        /\ excel_row.field.v \in {"7", "7.0", "7.9", "7.50"} => new_value = PyInt("7")
        /\ excel_row.field.v \in {"-7.9", "-7.0"} => new_value = PyInt("-7")
        /\ excel_row.field.v = "2015" => new_value = PyInt("2015")
        /\ excel_row.field.v \in {"abc", "", "Ja", "nan", "inf"} => new_value = PyNone

\* the cell of a FLOAT field has been translated by
\* DataTypeMapper.convert_value
FloatTranslated ==
    /\ Imported
    /\ importer = "DataTypeMapper.convert_value"
    /\ codec_meta.type = "FLOAT"
    /\ ~IsNa(excel_row.field)

\* C22: for a FLOAT field a cell that is a whole number is imported as an
\* integer (7 for "7" and for "7.0"), and a cell that is a number with a
\* fraction is imported as the text of the parsed number ("7.5" for "7.50"),
\* never as a float
C22_FloatConversion ==
    FloatTranslated =>
        /\ new_value.t \in {"int", "str"}
        /\ excel_row.field.v \in {"7", "7.0"} => new_value = PyInt("7")
        /\ excel_row.field.v = "-7.0" => new_value = PyInt("-7")
        /\ excel_row.field.v = "2015" => new_value = PyInt("2015")
        /\ excel_row.field.v = "7.9" => new_value = PyText("7.9")
        /\ excel_row.field.v = "7.50" => new_value = PyText("7.5")
        /\ excel_row.field.v = "-7.9" => new_value = PyText("-7.9")
        /\ new_value.t = "int" =>
              excel_row.field.v \in {"7", "7.0", "-7.0"} \cup {ToString(y) : y \in Years}

\* the cell "7.50" has been imported as the text "7.5"
C22_Witness ==
    /\ FloatTranslated
    /\ excel_row.field = PyText("7.50")
    /\ new_value = PyText("7.5")

(***************************************************************************)
(* Properties of the layout of the export and of the metadata map.         *)
(***************************************************************************)
\* the configured attribute at position k is an attribute of no object
AbsentFromEveryObject(k) ==
    \A n \in DOMAIN api_data :
        config_attributes[k].AttributeName \notin api_data[n].attributes

StoredUnder(descriptor, name) ==
    descriptor.name \in {name, name \o " - Woonstad"}

\* the positions of two different descriptors that are both stored under
\* the name, the first one earlier in the metadata than the second
Collisions(name) ==
    {p \in (DOMAIN ot_attributes) \X (DOMAIN ot_attributes) :
        /\ p[1] < p[2]
        /\ StoredUnder(ot_attributes[p[1]], name)
        /\ StoredUnder(ot_attributes[p[2]], name)
        /\ ot_attributes[p[1]] # ot_attributes[p[2]]}

\* C24: when two descriptors of the metadata share a simplified name, the
\* index entry of that name points to the earlier descriptor: the first
\* match wins and a later descriptor never overwrites it.
C24_FirstMatchWins ==
    layout_pc = "mapped" =>
        \A name \in DOMAIN meta_map :
            \A p \in Collisions(name) : meta_map[name] = ot_attributes[p[1]]

\* C24 as the code has it: the entry of the shared name points to the later
\* descriptor, every descriptor replacing what was stored under its names.
C24_LastMatchWins ==
    layout_pc = "mapped" =>
        \A name \in DOMAIN meta_map :
            \A p \in Collisions(name) : meta_map[name] = ot_attributes[p[2]]

\* the map is built for a configured name under which two different
\* descriptors are stored
C24_Witness ==
    /\ layout_pc = "mapped"
    /\ \E name \in DOMAIN meta_map : Collisions(name) # {}

\* C25: when build_metadata_map succeeds, the keys of the map are exactly
\* the AttributeName values of the configuration; a name that a descriptor
\* matches, exactly or by its simplified name, maps to such a descriptor,
\* and a name that no descriptor matches maps to {}.
C25_MetadataMapTotality ==
    layout_pc = "mapped" =>
        /\ DOMAIN meta_map =
              {config_attributes[k].AttributeName : k \in DOMAIN config_attributes}
        /\ \A name \in DOMAIN meta_map :
              LET matches == {k \in DOMAIN ot_attributes :
                                 StoredUnder(ot_attributes[k], name)}
              IN  IF matches = {} THEN meta_map[name] = NoMetadata
                  ELSE \E k \in matches : meta_map[name] = ot_attributes[k]

\* the map is built for two configured names, one matched by the simplified
\* name of a descriptor only and one that no descriptor matches
C25_Witness ==
    /\ layout_pc = "mapped"
    /\ Len(config_attributes) = 2
    /\ Len(ot_attributes) = 1
    /\ ot_attributes[1].name = SuffixedName
    /\ meta_map[AttributeName] = ot_attributes[1]
    /\ meta_map[ConfigAttributeNames[2]] = NoMetadata

(***************************************************************************)
(* Properties of the validator.                                            *)
(***************************************************************************)
\* the errors of the list that are about the column and have the row "N/A"
ColumnErrors(errors, column) ==
    {k \in DOMAIN errors : errors[k].column = column /\ errors[k].row = "N/A"}

\* C26: a configured column that the sheet lacks gives a missing-column
\* error only if its field is required, an absent column of a field that is
\* not required gives no error; a column of the sheet that is not
\* configured (and is neither objectType nor identifier) gives exactly one
\* unknown-column error, with the row "N/A".
C26_ColumnSetCheck ==
    ValidationDone =>
        /\ ExcelColumnName \notin df.columns =>
              IF field_metadata.required
              THEN ColumnErrors(validation_errors, ExcelColumnName) # {}
              ELSE ColumnErrors(validation_errors, ExcelColumnName) = {}
        /\ ExcelColumnName \in df.columns =>
              ColumnErrors(validation_errors, ExcelColumnName) = {}
        /\ Cardinality({k \in DOMAIN validation_errors : validation_errors[k].column = "Extra"})
              = IF "Extra" \in df.columns THEN 1 ELSE 0
        /\ \A k \in DOMAIN validation_errors :
              validation_errors[k].column = "Extra" =>
                  /\ validation_errors[k].row = "N/A"
                  /\ validation_errors[k].error = "Onbekende kolom aanwezig"

\* the errors of the list for the cell of the column in a row of the sheet;
\* the row of index idx is row idx + 2 of the sheet, the positions of the
\* model being idx + 1
CellErrors(errors, column, pos) ==
    {k \in DOMAIN errors : errors[k].column = column /\ errors[k].row = ToString(pos + 1)}

\* C27: a blank cell of a configured column gives exactly one required-field
\* error, with the row index + 2, when the field is required and no error
\* otherwise: no type, format or allowed-values check is made on it.  The
\* validation does not stop at the first error: the errors of all checks
\* are in the list together.
C27_RequiredBlankPerCell ==
    ValidationDone =>
        /\ ExcelColumnName \in df.columns =>
              \A pos \in DOMAIN df.rows :
                  IsNa(df.rows[pos].field) =>
                      LET cell == CellErrors(validation_errors, ExcelColumnName, pos)
                      IN  /\ Cardinality(cell) = IF field_metadata.required THEN 1 ELSE 0
                          /\ \A k \in cell :
                                validation_errors[k].error = "Verplicht veld mag niet leeg zijn"
        /\ "identifier" \in df.columns =>
              \A pos \in DOMAIN df.rows :
                  IsNa(df.rows[pos].identifier) =>
                      CellErrors(validation_errors, "identifier", pos) # {}
        /\ "objectType" \in df.columns =>
              \A pos \in DOMAIN df.rows :
                  df.rows[pos].objectType # PyText(ConfigObjectType) =>
                      CellErrors(validation_errors, "objectType", pos) # {}
        /\ "Extra" \in df.columns =>
              \E k \in DOMAIN validation_errors : validation_errors[k].column = "Extra"

\* a sheet of two rows, both with a blank cell in a required field, a blank
\* identifier and a wrong object type, and with a column that is not
\* configured: all seven errors are in the list
C27_Witness ==
    /\ ValidationDone
    /\ df.columns = {"objectType", "identifier", ExcelColumnName, "Extra"}
    /\ Len(df.rows) = 2
    /\ field_metadata.required
    /\ \A pos \in DOMAIN df.rows :
          /\ IsNa(df.rows[pos].field)
          /\ IsNa(df.rows[pos].identifier)
          /\ df.rows[pos].objectType = PyText("Unit")
    /\ Cardinality(CellErrors(validation_errors, ExcelColumnName, 2)) = 1
    /\ Len(validation_errors) = 7

(***************************************************************************)
(* Delivery and termination of the upload.                                 *)
(***************************************************************************)
\* update_objects has ended by raising
Aborted == upd_error # None

\* C28: the delivery is not atomic and at least once.  When update_objects
\* aborts on batch k, every batch 1..k-1 was acknowledged by a successful
\* PUT before, and nothing but PUTs of batches of the input (and sleeps) was
\* ever sent: no request takes an acknowledged batch back, the results
\* gathered from them are still held.  A batch that failed transiently was
\* sent again with the same payload, so it may have been delivered more
\* than once.
C28_NonAtomicDelivery ==
    /\ \A p \in DOMAIN trace :
          /\ trace[p].op \in {"put", "sleep"}
          /\ trace[p].op = "put" =>
                trace[p].payload =
                    PySlice(objects_data, (trace[p].batch - 1) * batch_size,
                            trace[p].batch * batch_size)
    /\ Aborted =>
          /\ trace # <<>>
          /\ LET k == trace[Len(trace)].batch
                 oks == OkPuts
             IN  /\ Len(oks) = k - 1
                 /\ \A b \in 1..(k - 1) : oks[b].batch = b
                 /\ response_json_list =
                       Concat([b \in 1..Len(oks) |-> oks[b].resp.items])
                 /\ \A p \in PutsOfBatch(k) : trace[p].result # "ok"

\* the upload aborted on its third batch, after two acknowledged batches,
\* the second of which was sent twice because its first PUT timed out
C28_Witness ==
    /\ Aborted
    /\ upd_pc = "raised"
    /\ trace[Len(trace)].batch = 3
    /\ Len(OkPuts) = 2
    /\ Cardinality(PutsOfBatch(2)) = 2
    /\ \A p \in PutsOfBatch(2) : trace[p].payload = PySlice(objects_data, batch_size, 2 * batch_size)
    /\ response_json_list # <<>>

\* C30: when update_objects returns a report, every batch of the input was
\* acknowledged by exactly one successful PUT, the successful PUTs are in
\* input order, and no PUT of batch b + 1 was sent before the successful
\* PUT of batch b.
C30_CompleteDelivery ==
    upd_result.returned =>
        LET batches == CeilDiv(Len(objects_data), batch_size)
        IN  /\ \A b \in 1..batches :
                  Cardinality({p \in PutsOfBatch(b) : trace[p].result = "ok"}) = 1
            /\ \A p, q \in DOMAIN trace :
                  (trace[p].op = "put" /\ trace[q].op = "put"
                      /\ trace[p].batch < trace[q].batch) => p < q
            /\ \A b \in 1..batches :
                  LET last == CHOOSE p \in PutsOfBatch(b) : \A q \in PutsOfBatch(b) : q <= p
                  IN  /\ trace[last].result = "ok"
                      /\ trace[last].payload =
                            SubSeq(objects_data, (b - 1) * batch_size + 1,
                                   Min(b * batch_size, Len(objects_data)))
            /\ \A p \in DOMAIN trace : trace[p].op = "put" => trace[p].batch \in 1..batches

\* an upload of three batches returned, the first batch acknowledged on its
\* second attempt and the last one on its last attempt
C30_Witness ==
    /\ upd_result.returned
    /\ CeilDiv(Len(objects_data), batch_size) = 3
    /\ Cardinality(PutsOfBatch(1)) = 2
    /\ max_retries >= 2
    /\ Cardinality(PutsOfBatch(3)) = max_retries
    /\ report.shown = "report"

\* update_objects has ended: by its return statement or by raising
UpdateObjectsEnded == upd_pc \in {"returned", "raised", "done"}
Completed == upd_result.returned
NonRetryable == upd_error \notin TransientErrors \cup {None}

\* C29: for every list of objects, batch_size >= 1 and max_retries >= 1,
\* when every request returns or times out, update_objects eventually ends,
\* and it ends in exactly one of three ways: it returns (the report
\* follows), it raises the transient error of an exhausted batch, or it
\* raises on an error that is not retried; the PUTs sent are never more
\* than ceil(n / batch_size) * max_retries.
C29_UploadTermination ==
    /\ <>[]UpdateObjectsEnded
    /\ [](UpdateObjectsEnded =>
             \/ Completed /\ ~TransientRaised /\ ~NonRetryable
             \/ ~Completed /\ TransientRaised /\ ~NonRetryable
             \/ ~Completed /\ ~TransientRaised /\ NonRetryable)
    /\ [](Len(Puts) <= CeilDiv(Len(objects_data), batch_size) * max_retries)

\* an upload of two batches returned after ceil(n / batch_size) *
\* max_retries PUTs: each batch was acknowledged on its last attempt
C29_Witness ==
    /\ UpdateObjectsEnded
    /\ Completed
    /\ max_retries >= 2
    /\ CeilDiv(Len(objects_data), batch_size) = 2
    /\ Len(Puts) = 2 * max_retries

========================================================================
